---- MODULE Spec2Model ----
(***************************************************************************)
(* A model of scripts/memory-search.py: the hybrid (BM25 + vector + RRF)   *)
(* search of the memory store.                                             *)
(*                                                                         *)
(* Two specifications share the operators below.                           *)
(*   SpecFuse  applies rrf_fuse and the mode dispatch of search to ranked  *)
(*             candidate lists drawn from bounded sets.                    *)
(*   Spec      is the store: the corpus, the SQLite database (committed    *)
(*             state and the open connection's view), the embedding        *)
(*             provider, and the steps of search and rebuild_index.        *)
(***************************************************************************)
EXTENDS Integers, Sequences, FiniteSets, TLC

(***************************************************************************)
(* Program constants.                                                      *)
(***************************************************************************)
MAX_RESULTS == 6
RRF_K == 60
\* JACCARD_THRESHOLD = 0.83, kept as the fraction JACCARD_NUM / JACCARD_DEN
JACCARD_NUM == 83
JACCARD_DEN == 100
VECTOR_CANDIDATES == 20
BM25_CANDIDATES == 20

(***************************************************************************)
(* Bounds of the model.                                                    *)
(***************************************************************************)
\* rowids of the chunks the short candidate lists are drawn from
NumChunks == 5
\* longest short candidate list
MaxLen == 3
\* long candidate lists have up to BM25_CANDIDATES + MaxExtra items
MaxExtra == 2

(***************************************************************************)
(* Exact fractions <<numerator, denominator>>, denominator > 0.  The code  *)
(* uses floats; for k = 60 and the ranks reached here float comparison and *)
(* exact comparison of these sums agree.                                   *)
(***************************************************************************)
RatAdd(a, b) == <<a[1] * b[2] + b[1] * a[2], a[2] * b[2]>>
RatGt(a, b) == a[1] * b[2] > b[1] * a[2]
RatGeq(a, b) == a[1] * b[2] >= b[1] * a[2]
RatEq(a, b) == a[1] * b[2] = b[1] * a[2]

Take(s, n) == SubSeq(s, 1, IF n < Len(s) THEN n ELSE Len(s))

(***************************************************************************)
(* _jaccard_similarity: character-trigram Jaccard similarity of two texts  *)
(* (sequences of characters), as a fraction.                               *)
(***************************************************************************)
Trigrams(t) == {SubSeq(t, i, i + 2) : i \in 1..(Len(t) - 2)}

\* jaccard_similarity without the case of the short texts
jaccard_similarity_without_short_case(text_a, text_b) ==
    LET set_a == Trigrams(text_a)
        set_b == Trigrams(text_b)
        intersection == Cardinality(set_a \cap set_b)
        union == Cardinality(set_a \cup set_b)
    IN  IF union > 0 THEN <<intersection, union>> ELSE <<0, 1>>

jaccard_similarity(text_a, text_b) ==
    IF Len(text_a) < 3 \/ Len(text_b) < 3
    THEN (IF text_a = text_b THEN <<1, 1>> ELSE <<0, 1>>)
    ELSE LET set_a == Trigrams(text_a)
             set_b == Trigrams(text_b)
             intersection == Cardinality(set_a \cap set_b)
             union == Cardinality(set_a \cup set_b)
         IN  IF union > 0 THEN <<intersection, union>> ELSE <<0, 1>>

\* IsNearDup with the threshold 0.85
IsNearDup_085(text_a, text_b) ==
    RatGt(jaccard_similarity(text_a, text_b), <<85, 100>>)

\* _jaccard_similarity(a, b) > JACCARD_THRESHOLD
IsNearDup(text_a, text_b) ==
    RatGt(jaccard_similarity(text_a, text_b), <<JACCARD_NUM, JACCARD_DEN>>)

(***************************************************************************)
(* rrf_fuse.  `fused` is the dict keyed by rowid, kept as the sequence of  *)
(* its values in insertion order (a Python dict iterates in that order).   *)
(* A rank of 0 stands for None.                                            *)
(***************************************************************************)
RECURSIVE FusedIndex(_, _, _)
FusedIndex(fused, rid, i) ==
    IF i > Len(fused) THEN 0
    ELSE IF fused[i].rowid = rid THEN i
    ELSE FusedIndex(fused, rid, i + 1)

NewFused(result) ==
    [rowid |-> result.rowid, category |-> result.category,
     snippet |-> result.snippet, content |-> result.content,
     rrf_score |-> <<0, 1>>, sources |-> <<>>, bm25_rank |-> 0, vec_rank |-> 0]

\* one iteration of the loop over bm25_results
FuseBm25Step(fused, result, rank, k) ==
    LET i == FusedIndex(fused, result.rowid, 1)
        base == IF i = 0 THEN Append(fused, NewFused(result)) ELSE fused
        j == IF i = 0 THEN Len(base) ELSE i
    IN  [base EXCEPT ![j].rrf_score = RatAdd(@, <<1, k + rank>>),
                     ![j].sources = Append(@, "bm25"),
                     ![j].bm25_rank = rank]

\* FuseVectorStep with "=" for "+=": the vector contribution replaces the score
FuseVectorStep_assign(fused, result, rank, k) ==
    LET i == FusedIndex(fused, result.rowid, 1)
        base == IF i = 0 THEN Append(fused, NewFused(result)) ELSE fused
        j == IF i = 0 THEN Len(base) ELSE i
    IN  [base EXCEPT ![j].rrf_score = <<1, k + rank>>,
                     ![j].sources = Append(@, "vector"),
                     ![j].vec_rank = rank]

\* one iteration of the loop over vector_results, with the snippet choice
FuseVectorStep(fused, result, rank, k) ==
    LET i == FusedIndex(fused, result.rowid, 1)
        base == IF i = 0 THEN Append(fused, NewFused(result)) ELSE fused
        j == IF i = 0 THEN Len(base) ELSE i
        inBm25 == \E s \in 1..Len(base[j].sources) : base[j].sources[s] = "bm25"
        marked == base[j].snippet.marked
    IN  [base EXCEPT ![j].rrf_score = RatAdd(@, <<1, k + rank>>),
                     ![j].sources = Append(@, "vector"),
                     ![j].vec_rank = rank,
                     ![j].snippet = IF inBm25 /\ marked THEN @
                                    ELSE IF ~marked THEN result.snippet
                                    ELSE @]

RECURSIVE FuseBm25(_, _, _, _)
FuseBm25(fused, results, rank, k) ==
    IF rank > Len(results) THEN fused
    ELSE LET stepped == FuseBm25Step(fused, results[rank], rank, k)
         \* (the test is always true: it makes TLC evaluate the dict here)
         IN  IF Len(stepped) > 0 THEN FuseBm25(stepped, results, rank + 1, k)
             ELSE stepped

RECURSIVE FuseVector(_, _, _, _)
FuseVector(fused, results, rank, k) ==
    IF rank > Len(results) THEN fused
    ELSE LET stepped == FuseVectorStep(fused, results[rank], rank, k)
         IN  IF Len(stepped) > 0 THEN FuseVector(stepped, results, rank + 1, k)
             ELSE stepped

\* SortedPos of a sort that is not stable: equal scores come out reversed
SortedPos_unstable(items, i) ==
    Cardinality({j \in 1..Len(items) :
                    \/ RatGt(items[j].rrf_score, items[i].rrf_score)
                    \/ (RatEq(items[j].rrf_score, items[i].rrf_score) /\ j > i)}) + 1

\* sorted(items, key=rrf_score, reverse=True): descending, and stable (items
\* of equal score keep their order).  SortedPos(items, i) is the place the
\* item at index i takes.
SortedPos(items, i) ==
    Cardinality({j \in 1..Len(items) :
                    \/ RatGt(items[j].rrf_score, items[i].rrf_score)
                    \/ (RatEq(items[j].rrf_score, items[i].rrf_score) /\ j < i)}) + 1

SortByScore(items) ==
    [p \in 1..Len(items) |->
        items[CHOOSE i \in 1..Len(items) : SortedPos(items, i) = p]]

rrf_ranked(bm25_results, vector_results, k) ==
    SortByScore(FuseVector(FuseBm25(<<>>, bm25_results, 1, k), vector_results, 1, k))

\* Dedup comparing a candidate with the last accepted item only
RECURSIVE Dedup_last_only(_, _, _, _)
Dedup_last_only(ranked, i, deduped, max_results) ==
    IF i > Len(ranked) THEN deduped
    ELSE LET item == ranked[i]
             is_dup == /\ deduped # <<>>
                       /\ IsNearDup(item.content, deduped[Len(deduped)].content)
             next == IF is_dup THEN deduped ELSE Append(deduped, item)
         IN  IF Len(next) >= max_results THEN next
             ELSE Dedup_last_only(ranked, i + 1, next, max_results)

\* the Jaccard de-duplication loop, from position i of `ranked`
RECURSIVE Dedup(_, _, _, _)
Dedup(ranked, i, deduped, max_results) ==
    IF i > Len(ranked) THEN deduped
    ELSE LET item == ranked[i]
             is_dup == \E j \in 1..Len(deduped) :
                          IsNearDup(item.content, deduped[j].content)
             next == IF is_dup THEN deduped ELSE Append(deduped, item)
         IN  IF Len(next) >= max_results THEN next
             ELSE Dedup(ranked, i + 1, next, max_results)

rrf_fuse(bm25_results, vector_results, k, max_results) ==
    Dedup(rrf_ranked(bm25_results, vector_results, k), 1, <<>>, max_results)

(***************************************************************************)
(* search: the dispatch on the mode, given the engine's full ranked lists. *)
(* bm25_all is every row the FTS query matches (after the category         *)
(* filter), in rank order; vec_all is every embedded row (after the        *)
(* category filter) in descending cosine order, empty when no query        *)
(* vector can be made or nothing is embedded.                              *)
(***************************************************************************)
\* SELECT ... ORDER BY rank LIMIT max_results
bm25_search(bm25_all, max_results) == Take(bm25_all, max_results)

\* scored[:max_results]
vector_search(vec_all, max_results) == Take(vec_all, max_results)

Tagged(r, src) ==
    [rowid |-> r.rowid, category |-> r.category, snippet |-> r.snippet,
     content |-> r.content, sources |-> <<src>>]

TagAll(results, src) == [i \in 1..Len(results) |-> Tagged(results[i], src)]

search_results(mode, bm25_all, vec_all, max_results) ==
    IF mode = "bm25"
    THEN Take(TagAll(bm25_search(bm25_all, max_results), "bm25"), max_results)
    ELSE IF mode = "vector"
    THEN Take(TagAll(vector_search(vec_all, max_results), "vector"), max_results)
    ELSE LET bm25_results == bm25_search(bm25_all, BM25_CANDIDATES)
             vector_results == vector_search(vec_all, VECTOR_CANDIDATES)
         IN  IF vector_results = <<>>
             THEN Take(TagAll(bm25_results, "bm25"), max_results)
             ELSE rrf_fuse(bm25_results, vector_results, RRF_K, max_results)

(***************************************************************************)
(* The chunks the candidate lists of SpecFuse are made of.                 *)
(***************************************************************************)
Digit(d) == <<"0", "1", "2", "3", "4", "5", "6", "7", "8", "9">>[d + 1]

\* Chunk 2 is chunk 1 plus a trailing full stop, chunk 3 is chunk 1 with a
\* leading one, chunk 5 is chunk 4 plus a trailing full stop; every other
\* chunk has a text of its own.
ContentOf(rowid) ==
    CASE rowid = 1 -> <<"a", "b", "c", "d", "e", "f", "g">>
      [] rowid = 2 -> <<"a", "b", "c", "d", "e", "f", "g", ".">>
      [] rowid = 3 -> <<".", "a", "b", "c", "d", "e", "f", "g">>
      [] rowid = 4 -> <<"a", "b", "c", "d">>
      [] rowid = 5 -> <<"a", "b", "c", "d", ".">>
      [] OTHER -> <<"n", Digit((rowid \div 10) % 10), Digit(rowid % 10)>>

\* snippet(chunks, 3, '>>>', '<<<', ...) highlights the match in the content
\* column.  Chunk 3 matches the query in its path column only, so its
\* snippet has no highlight; every other chunk matches in its content.
MatchInContent(rowid) == rowid # 3

Bm25Item(rowid) ==
    [rowid |-> rowid, category |-> "daily",
     snippet |-> [marked |-> MatchInContent(rowid), from |-> "bm25"],
     content |-> ContentOf(rowid)]

VecItem(rowid) ==
    [rowid |-> rowid, category |-> "daily",
     snippet |-> [marked |-> FALSE, from |-> "vector"], content |-> ContentOf(rowid)]

\* duplicate-free sequences over S of length at most n
DistinctSeqs(S, n) ==
    {s \in UNION {[1..m -> S] : m \in 0..n} :
        \A i, j \in 1..Len(s) : i # j => s[i] # s[j]}

(***************************************************************************)
(* The store.                                                              *)
(*                                                                         *)
(* The corpus is two files, named in the order collect_files sorts them.   *)
(* A file's text is one of a few whole-file contents, known by what the    *)
(* chunker makes of it (DraftsOf); "bad" is a file whose read or chunking  *)
(* raises.  The fingerprint (mtime:size) is a counter that every edit      *)
(* advances.                                                               *)
(***************************************************************************)
\* edits of the corpus in one behaviour
MaxEdits == 1

PathSeq == <<"MEMORY.md", "daily/d.md">>
Paths == {PathSeq[i] : i \in 1..Len(PathSeq)}
Models == {"M1", "M2"}
FileTexts == {"none", "x", "y", "bad"}

categorize_file(filepath) ==
    CASE filepath = "MEMORY.md" -> "memory"
      [] filepath = "daily/d.md" -> "daily"
      [] OTHER -> "other"

\* chunk_markdown / chunk_json of the file's text: the chunk drafts
DraftsOf(text) ==
    CASE text = "x" -> <<[title |-> "X", content |-> ContentOf(1),
                          line_start |-> 1, line_end |-> 3]>>
      [] text = "y" -> <<[title |-> "Y1", content |-> ContentOf(2),
                          line_start |-> 1, line_end |-> 2],
                         [title |-> "Y2", content |-> ContentOf(4),
                          line_start |-> 3, line_end |-> 5]>>
      [] OTHER -> <<>>

\* open() or the chunker raises on this text
ReadRaises(text) == text = "bad"

\* init_db on a new file: five empty tables.  files maps a path to its
\* stored fingerprint, 0 for no row; model_name "none" is no vec_meta row.
EmptyDb ==
    [exists |-> TRUE, files |-> [p \in Paths |-> 0], chunks |-> {}, meta |-> {},
     emb |-> {}, model_name |-> "none"]
NoDb == [EmptyDb EXCEPT !.exists = FALSE]

\* the text build_embeddings embeds for a chunk: f"{title}: {content}"
EmbedText(c) == <<c.title, ": ", c.content>>
\* hashlib.md5(text.encode()).hexdigest()[:16], taken as collision-free
content_hash(text) == <<"md5_16", text>>
\* the provider's vector for a text under a model (a deterministic provider)
EmbedVec(model, text) == <<model, text>>

\* the rowid SQLite gives the next row inserted into chunks: max(rowid) + 1
NextRowid(chunks) ==
    IF chunks = {} THEN 1
    ELSE (CHOOSE r \in {c.rowid : c \in chunks} :
             \A c \in chunks : c.rowid <= r) + 1

\* the loop "for chunk in chunks" of index_file, from draft i; the insert
\* into chunks_meta raises when its rowid is taken
RECURSIVE InsertChunks(_, _, _, _)
InsertChunks(v, filepath, drafts, i) ==
    IF i > Len(drafts) THEN [db |-> v, raised |-> FALSE]
    ELSE LET rid == NextRowid(v.chunks)
             row == [rowid |-> rid, path |-> filepath,
                     category |-> categorize_file(filepath),
                     title |-> drafts[i].title, content |-> drafts[i].content]
             v1 == [v EXCEPT !.chunks = @ \cup {row}]
         IN  IF \E m \in v.meta : m.rowid = rid
             THEN [db |-> v1, raised |-> TRUE]
             ELSE InsertChunks(
                     [v1 EXCEPT !.meta = @ \cup
                         {[rowid |-> rid, path |-> filepath,
                           line_start |-> drafts[i].line_start,
                           line_end |-> drafts[i].line_end]}],
                     filepath, drafts, i + 1)

\* index_file without the DELETE FROM embeddings of the old rowids
index_file_keeps_embeddings(v, filepath, file) ==
    IF v.files[filepath] # 0 /\ v.files[filepath] = file.fp
    THEN [db |-> v, outcome |-> "skipped", count |-> 0, old |-> {}, oldEmb |-> {}]
    ELSE LET old_rowids == {c.rowid : c \in {c \in v.chunks : c.path = filepath}}
             oldEmb == {e.chunk_rowid : e \in {e \in v.emb : e.chunk_rowid \in old_rowids}}
             deleted == [v EXCEPT !.chunks = {c \in @ : c.path # filepath},
                                  !.meta = {m \in @ : m.rowid \notin old_rowids}]
             ins == InsertChunks(deleted, filepath, DraftsOf(file.text), 1)
         IN  IF ReadRaises(file.text)
             THEN [db |-> deleted, outcome |-> "raised", count |-> 0,
                   old |-> old_rowids, oldEmb |-> oldEmb]
             ELSE IF ins.raised
             THEN [db |-> ins.db, outcome |-> "raised", count |-> 0,
                   old |-> old_rowids, oldEmb |-> oldEmb]
             ELSE [db |-> [ins.db EXCEPT !.files[filepath] = file.fp],
                   outcome |-> "indexed", count |-> Len(DraftsOf(file.text)),
                   old |-> old_rowids, oldEmb |-> oldEmb]

\* index_file without the DELETE FROM chunks_meta of the old rowids
index_file_keeps_meta(v, filepath, file) ==
    IF v.files[filepath] # 0 /\ v.files[filepath] = file.fp
    THEN [db |-> v, outcome |-> "skipped", count |-> 0, old |-> {}, oldEmb |-> {}]
    ELSE LET old_rowids == {c.rowid : c \in {c \in v.chunks : c.path = filepath}}
             oldEmb == {e.chunk_rowid : e \in {e \in v.emb : e.chunk_rowid \in old_rowids}}
             deleted == [v EXCEPT !.chunks = {c \in @ : c.path # filepath},
                                  !.emb = {e \in @ : e.chunk_rowid \notin old_rowids}]
             ins == InsertChunks(deleted, filepath, DraftsOf(file.text), 1)
         IN  IF ReadRaises(file.text)
             THEN [db |-> deleted, outcome |-> "raised", count |-> 0,
                   old |-> old_rowids, oldEmb |-> oldEmb]
             ELSE IF ins.raised
             THEN [db |-> ins.db, outcome |-> "raised", count |-> 0,
                   old |-> old_rowids, oldEmb |-> oldEmb]
             ELSE [db |-> [ins.db EXCEPT !.files[filepath] = file.fp],
                   outcome |-> "indexed", count |-> Len(DraftsOf(file.text)),
                   old |-> old_rowids, oldEmb |-> oldEmb]

\* index_file(conn, filepath) on the view v, the file being `file`.
\* outcome: "skipped" (fingerprint unchanged, returns 0), "indexed" (returns
\* count) or "raised"; db is the view it leaves; old and oldEmb are the
\* rowids whose chunk rows and embedding rows it deleted.
index_file(v, filepath, file) ==
    IF v.files[filepath] # 0 /\ v.files[filepath] = file.fp
    THEN [db |-> v, outcome |-> "skipped", count |-> 0, old |-> {}, oldEmb |-> {}]
    ELSE LET old_rowids == {c.rowid : c \in {c \in v.chunks : c.path = filepath}}
             oldEmb == {e.chunk_rowid : e \in {e \in v.emb : e.chunk_rowid \in old_rowids}}
             deleted == [v EXCEPT !.chunks = {c \in @ : c.path # filepath},
                                  !.meta = {m \in @ : m.rowid \notin old_rowids},
                                  !.emb = {e \in @ : e.chunk_rowid \notin old_rowids}]
             ins == InsertChunks(deleted, filepath, DraftsOf(file.text), 1)
         IN  IF ReadRaises(file.text)
             THEN [db |-> deleted, outcome |-> "raised", count |-> 0,
                   old |-> old_rowids, oldEmb |-> oldEmb]
             ELSE IF ins.raised
             THEN [db |-> ins.db, outcome |-> "raised", count |-> 0,
                   old |-> old_rowids, oldEmb |-> oldEmb]
             ELSE [db |-> [ins.db EXCEPT !.files[filepath] = file.fp],
                   outcome |-> "indexed", count |-> Len(DraftsOf(file.text)),
                   old |-> old_rowids, oldEmb |-> oldEmb]

\* NewEmbeddings whose content hash is taken over the content alone
NewEmbeddings_hash_of_content(rows, model) ==
    {[chunk_rowid |-> c.rowid, embedding |-> EmbedVec(model, EmbedText(c)),
      model |-> model, content_hash |-> content_hash(c.content)] : c \in rows}

\* the rows build_embeddings writes for the chunks `rows` under `model`
NewEmbeddings(rows, model) ==
    {[chunk_rowid |-> c.rowid, embedding |-> EmbedVec(model, EmbedText(c)),
      model |-> model, content_hash |-> content_hash(EmbedText(c))] : c \in rows}

\* build_embeddings that neither purges nor forces on a model change
build_embeddings_no_purge(v, force, prov, outcome) ==
    IF ~prov.avail
    THEN [db |-> v, commit |-> FALSE, raised |-> FALSE, called |-> FALSE,
          rows |-> {}, ret |-> 0]
    ELSE LET current_model == prov.model
             v2 == [v EXCEPT !.model_name = current_model]
             rows == IF force THEN v2.chunks
                     ELSE {c \in v2.chunks :
                              ~\E e \in v2.emb : e.chunk_rowid = c.rowid}
             rowids == {c.rowid : c \in rows}
         IN  IF rows = {}
             THEN [db |-> v2, commit |-> FALSE, raised |-> FALSE, called |-> FALSE,
                   rows |-> {}, ret |-> 0]
             ELSE IF outcome = "raise"
             THEN [db |-> v2, commit |-> FALSE, raised |-> TRUE, called |-> TRUE,
                   rows |-> rowids, ret |-> 0]
             ELSE IF outcome = "empty"
             THEN [db |-> v2, commit |-> FALSE, raised |-> FALSE, called |-> TRUE,
                   rows |-> rowids, ret |-> 0]
             ELSE [db |-> [v2 EXCEPT !.emb = {e \in @ : e.chunk_rowid \notin rowids}
                                            \cup NewEmbeddings(rows, current_model)],
                   commit |-> TRUE, raised |-> FALSE, called |-> TRUE,
                   rows |-> rowids, ret |-> Cardinality(rows)]

\* build_embeddings that queues every chunk, forced or not
build_embeddings_all_rows(v, force, prov, outcome) ==
    IF ~prov.avail
    THEN [db |-> v, commit |-> FALSE, raised |-> FALSE, called |-> FALSE,
          rows |-> {}, ret |-> 0]
    ELSE LET current_model == prov.model
             changed == v.model_name # "none" /\ v.model_name # current_model
             v1 == IF changed THEN [v EXCEPT !.emb = {}] ELSE v
             v2 == [v1 EXCEPT !.model_name = current_model]
             rows == v2.chunks
             rowids == {c.rowid : c \in rows}
         IN  IF rows = {}
             THEN [db |-> v2, commit |-> FALSE, raised |-> FALSE, called |-> FALSE,
                   rows |-> {}, ret |-> 0]
             ELSE IF outcome = "raise"
             THEN [db |-> v2, commit |-> FALSE, raised |-> TRUE, called |-> TRUE,
                   rows |-> rowids, ret |-> 0]
             ELSE IF outcome = "empty"
             THEN [db |-> v2, commit |-> FALSE, raised |-> FALSE, called |-> TRUE,
                   rows |-> rowids, ret |-> 0]
             ELSE [db |-> [v2 EXCEPT !.emb = {e \in @ : e.chunk_rowid \notin rowids}
                                            \cup NewEmbeddings(rows, current_model)],
                   commit |-> TRUE, raised |-> FALSE, called |-> TRUE,
                   rows |-> rowids, ret |-> Cardinality(rows)]

\* build_embeddings(conn, force) on the view v.  prov is the provider this
\* process resolved; outcome is what the one batch embed call does if it is
\* made: "ok" (a vector per text), "empty" (no vectors) or "raise".
\* commit: conn.commit() was reached; called: the embed call was made, with
\* the chunks `rows`.
build_embeddings(v, force, prov, outcome) ==
    IF ~prov.avail
    THEN [db |-> v, commit |-> FALSE, raised |-> FALSE, called |-> FALSE,
          rows |-> {}, ret |-> 0]
    ELSE LET current_model == prov.model
             changed == v.model_name # "none" /\ v.model_name # current_model
             v1 == IF changed THEN [v EXCEPT !.emb = {}] ELSE v
             force1 == force \/ changed
             v2 == [v1 EXCEPT !.model_name = current_model]
             rows == IF force1 THEN v2.chunks
                     ELSE {c \in v2.chunks :
                              ~\E e \in v2.emb : e.chunk_rowid = c.rowid}
             rowids == {c.rowid : c \in rows}
         IN  IF rows = {}
             THEN [db |-> v2, commit |-> FALSE, raised |-> FALSE, called |-> FALSE,
                   rows |-> {}, ret |-> 0]
             ELSE IF outcome = "raise"
             THEN [db |-> v2, commit |-> FALSE, raised |-> TRUE, called |-> TRUE,
                   rows |-> rowids, ret |-> 0]
             ELSE IF outcome = "empty"
             THEN [db |-> v2, commit |-> FALSE, raised |-> FALSE, called |-> TRUE,
                   rows |-> rowids, ret |-> 0]
             ELSE [db |-> [v2 EXCEPT !.emb = {e \in @ : e.chunk_rowid \notin rowids}
                                            \cup NewEmbeddings(rows, current_model)],
                   commit |-> TRUE, raised |-> FALSE, called |-> TRUE,
                   rows |-> rowids, ret |-> Cardinality(rows)]

\* the rowids of S in ascending / descending order
RECURSIVE Ascending(_)
Ascending(S) ==
    IF S = {} THEN <<>>
    ELSE LET m == CHOOSE x \in S : \A y \in S : x <= y
         IN  <<m>> \o Ascending(S \ {m})
Descending(S) ==
    LET a == Ascending(S) IN [i \in 1..Len(a) |-> a[Len(a) + 1 - i]]

ChunkRow(v, rid) == CHOOSE c \in v.chunks : c.rowid = rid
\* CategoryOk without the filter
CategoryOk_any(c, category_filter) == TRUE
CategoryOk(c, category_filter) == category_filter = "" \/ c.category = category_filter

\* the rows of chunks the FTS query matches, after the category filter, in
\* the engine's rank order.  The query of the model matches every chunk and
\* ranks by rowid.
StoreBm25All(v, category_filter) ==
    LET hits == Ascending({c.rowid : c \in {c \in v.chunks : CategoryOk(c, category_filter)}})
    IN  [i \in 1..Len(hits) |->
            [rowid |-> hits[i], category |-> ChunkRow(v, hits[i]).category,
             snippet |-> [marked |-> TRUE, from |-> "bm25"],
             content |-> ChunkRow(v, hits[i]).content]]

\* StoreVecAll that does not ask for a provider
StoreVecAll_without_provider(v, category_filter, prov) ==
    LET joined == {e.chunk_rowid : e \in {e \in v.emb :
                       \E c \in v.chunks : /\ c.rowid = e.chunk_rowid
                                           /\ CategoryOk(c, category_filter)}}
        hits == Descending(joined)
    IN  [i \in 1..Len(hits) |->
            [rowid |-> hits[i], category |-> ChunkRow(v, hits[i]).category,
             snippet |-> [marked |-> FALSE, from |-> "vector"],
             content |-> ChunkRow(v, hits[i]).content]]

\* vector_search before its cut: no query vector without a provider; else
\* embeddings JOIN chunks, after the category filter, by descending cosine
\* (here: descending rowid)
StoreVecAll(v, category_filter, prov) ==
    IF ~prov.avail THEN <<>>
    ELSE LET joined == {e.chunk_rowid : e \in {e \in v.emb :
                            \E c \in v.chunks : /\ c.rowid = e.chunk_rowid
                                                /\ CategoryOk(c, category_filter)}}
             hits == Descending(joined)
         IN  [i \in 1..Len(hits) |->
                 [rowid |-> hits[i], category |-> ChunkRow(v, hits[i]).category,
                  snippet |-> [marked |-> FALSE, from |-> "vector"],
                  content |-> ChunkRow(v, hits[i]).content]]

(***************************************************************************)
(* Text: strings are sequences of one-character strings.                   *)
(***************************************************************************)
MAX_CHUNK_LINES == 30
MIN_CHUNK_CHARS == 20

Whitespace == {" ", "\n", "\t"}

\* s.lstrip(chars) / s.rstrip(chars) / s.strip() for whitespace
lstrip(s, chars) ==
    LET keep == {i \in 1..Len(s) : s[i] \notin chars}
    IN  IF keep = {} THEN <<>>
        ELSE SubSeq(s, CHOOSE i \in keep : \A j \in keep : i <= j, Len(s))
rstrip(s, chars) ==
    LET keep == {i \in 1..Len(s) : s[i] \notin chars}
    IN  IF keep = {} THEN <<>>
        ELSE SubSeq(s, 1, CHOOSE i \in keep : \A j \in keep : j <= i)
strip(s) == rstrip(lstrip(s, Whitespace), Whitespace)

\* sep.join(parts)
RECURSIVE join(_, _)
join(sep, parts) ==
    IF parts = <<>> THEN <<>>
    ELSE IF Len(parts) = 1 THEN parts[1]
    ELSE parts[1] \o sep \o join(sep, Tail(parts))

\* s.split(sep) for a one-character sep: always at least one piece
split(s, sep) ==
    LET cuts == {i \in 1..Len(s) : s[i] = sep}
        bounds == Ascending(cuts \cup {0, Len(s) + 1})
    IN  [n \in 1..(Len(bounds) - 1) |-> SubSeq(s, bounds[n] + 1, bounds[n + 1] - 1)]

startswith(s, c) == Len(s) > 0 /\ s[1] = c

\* os.path.basename of the paths of the model, as text
basename(filepath) ==
    CASE filepath = "MEMORY.md" -> <<"M", "E", "M", "O", "R", "Y", ".", "m", "d">>
      [] filepath = "daily/d.md" -> <<"d", ".", "m", "d">>
      [] filepath = "areas/p.json" -> <<"p", ".", "j", "s", "o", "n">>
      [] OTHER -> <<"?">>

(***************************************************************************)
(* chunk_markdown                                                          *)
(***************************************************************************)
NewChunk(title, current_lines, line_start, line_end) ==
    [title |-> title, content |-> strip(join(<<"\n">>, current_lines)),
     line_start |-> line_start, line_end |-> line_end]

\* chunks.append(...) under "if len(chunk_text) > 20"
AppendIfLong(chunks, c) ==
    IF Len(c.content) > MIN_CHUNK_CHARS THEN Append(chunks, c) ELSE chunks

\* MdStep that splits when the lines are more than max_chunk_lines
MdStep_split_late(st, line, i, max_chunk_lines) ==
    IF startswith(line, "#") /\ st.current_lines # <<>>
    THEN LET t == strip(lstrip(line, {"#"}))
         IN  [chunks |-> AppendIfLong(st.chunks,
                            NewChunk(st.current_title, st.current_lines,
                                     st.current_start, i - 1)),
              current_title |-> IF t # <<>> THEN t ELSE st.current_title,
              current_lines |-> <<line>>,
              current_start |-> i]
    ELSE LET grown == Append(st.current_lines, line)
         IN  IF Len(grown) > max_chunk_lines
             THEN [chunks |-> AppendIfLong(st.chunks,
                                 NewChunk(st.current_title, grown, st.current_start, i)),
                   current_title |-> st.current_title,
                   current_lines |-> <<>>,
                   current_start |-> i + 1]
             ELSE [st EXCEPT !.current_lines = grown]

\* the body of "for i, line in enumerate(lines, 1)"
MdStep(st, line, i, max_chunk_lines) ==
    IF startswith(line, "#") /\ st.current_lines # <<>>
    THEN LET t == strip(lstrip(line, {"#"}))
         IN  [chunks |-> AppendIfLong(st.chunks,
                            NewChunk(st.current_title, st.current_lines,
                                     st.current_start, i - 1)),
              current_title |-> IF t # <<>> THEN t ELSE st.current_title,
              current_lines |-> <<line>>,
              current_start |-> i]
    ELSE LET grown == Append(st.current_lines, line)
         IN  IF Len(grown) >= max_chunk_lines
             THEN [chunks |-> AppendIfLong(st.chunks,
                                 NewChunk(st.current_title, grown, st.current_start, i)),
                   current_title |-> st.current_title,
                   current_lines |-> <<>>,
                   current_start |-> i + 1]
             ELSE [st EXCEPT !.current_lines = grown]

RECURSIVE MdLoop(_, _, _, _)
MdLoop(st, lines, i, max_chunk_lines) ==
    IF i > Len(lines) THEN st
    ELSE LET stepped == MdStep(st, lines[i], i, max_chunk_lines)
         \* (the test is always true: it makes TLC evaluate the state here)
         IN  IF stepped.current_start > 0
             THEN MdLoop(stepped, lines, i + 1, max_chunk_lines)
             ELSE stepped

chunk_markdown(content, filepath, max_chunk_lines) ==
    LET lines == split(content, "\n")
        st == MdLoop([chunks |-> <<>>, current_title |-> basename(filepath),
                      current_lines |-> <<>>, current_start |-> 1],
                     lines, 1, max_chunk_lines)
    IN  IF st.current_lines # <<>>
        THEN AppendIfLong(st.chunks,
                NewChunk(st.current_title, st.current_lines, st.current_start,
                         Len(lines)))
        ELSE st.chunks

(***************************************************************************)
(* chunk_json.  The document is given as json.loads reads it:              *)
(*   kind   "invalid" (JSONDecodeError), "facts" (an object whose "facts"  *)
(*          is a list), "dict" (any other object), "list", "string",       *)
(*          "number" (a number or a boolean) or "null";                    *)
(*   facts  the entries of the "facts" list: [object, has_id, id, fact,    *)
(*          category, status, evidence], object telling an entry that is   *)
(*          a JSON object from one that is not, an absent category / fact  *)
(*          / evidence being empty;                                        *)
(*   items  the members of the object: [key, dumped], dumped being         *)
(*          json.dumps(value, ensure_ascii=False);                         *)
(*   has_facts  for a list: "facts" is one of its elements; for a string:  *)
(*          "facts" is a part of it.                                       *)
(***************************************************************************)
FactText(fact) ==
    LET text == <<"[">> \o fact.category \o <<"]", " ">> \o fact.fact
    IN  IF fact.evidence # <<>>
        THEN text \o <<" ", "(", "e", "v", "i", "d", "e", "n", "c", "e", ":", " ">>
                  \o fact.evidence \o <<")">>
        ELSE text

FactChunk(fact, filepath) ==
    [title |-> IF fact.has_id THEN fact.id ELSE basename(filepath),
     content |-> FactText(fact), line_start |-> 1, line_end |-> 1]

\* ItemChunk that keeps the whole serialized value
ItemChunk_untruncated(item) ==
    [title |-> item.key, content |-> item.key \o <<":", " ">> \o item.dumped,
     line_start |-> 1, line_end |-> 1]

ItemChunk(item) ==
    [title |-> item.key,
     content |-> item.key \o <<":", " ">> \o Take(item.dumped, 500),
     line_start |-> 1, line_end |-> 1]

\* chunk_json(content, filepath): [chunks, raised]; raised is the TypeError
\* of '"facts" in data' on a number or null, the TypeError of data["facts"]
\* on a list or a string that has "facts" in it, or the AttributeError of
\* fact.get on an entry of the facts list that is not an object
chunk_json(data, content, filepath) ==
    CASE data.kind = "invalid" ->
            [chunks |-> <<[title |-> basename(filepath), content |-> Take(content, 2000),
                           line_start |-> 1, line_end |-> 1]>>,
             raised |-> FALSE]
      [] data.kind \in {"number", "null"} -> [chunks |-> <<>>, raised |-> TRUE]
      [] data.kind \in {"list", "string"} /\ data.has_facts ->
            [chunks |-> <<>>, raised |-> TRUE]
      [] data.kind = "facts" /\ \E i \in 1..Len(data.facts) : ~data.facts[i].object ->
            [chunks |-> <<>>, raised |-> TRUE]
      [] data.kind = "facts" ->
            LET active == SelectSeq(data.facts, LAMBDA f : f.status = "active")
            IN  [chunks |-> [i \in 1..Len(active) |-> FactChunk(active[i], filepath)],
                 raised |-> FALSE]
      [] data.kind = "dict" ->
            [chunks |-> [i \in 1..Len(data.items) |-> ItemChunk(data.items[i])],
             raised |-> FALSE]
      [] OTHER -> [chunks |-> <<>>, raised |-> FALSE]

(***************************************************************************)
(* sanitize_fts_query.  A CJK character (U+4E00..U+9FFF, U+3400..U+4DBF)   *)
(* is written as its code point.                                           *)
(***************************************************************************)
CJKChars == {"U+79EF", "U+5206"}
IsCJK(c) == c \in CJKChars

\* query.split(): the maximal runs of non-whitespace characters
split_ws(s) ==
    LET cuts == {i \in 1..Len(s) : s[i] \in Whitespace}
        bounds == Ascending(cuts \cup {0, Len(s) + 1})
        pieces == [n \in 1..(Len(bounds) - 1) |->
                      SubSeq(s, bounds[n] + 1, bounds[n + 1] - 1)]
    IN  SelectSeq(pieces, LAMBDA t : t # <<>>)

\* escape_quotes that leaves the quotes as they are
escape_quotes_kept(t) == t

\* t.replace('"', '""')
RECURSIVE escape_quotes(_)
escape_quotes(t) ==
    IF t = <<>> THEN <<>>
    ELSE (IF Head(t) = "\"" THEN <<"\"", "\"">> ELSE <<Head(t)>>)
         \o escape_quotes(Tail(t))

quoted(t) == <<"\"">> \o escape_quotes(t) \o <<"\"">>

\* the terms one token adds to `sanitized`
TokenTerms(t0) ==
    LET t == strip(t0)
        cjk_part == SelectSeq(t, IsCJK)
        non_cjk == strip(SelectSeq(t, LAMBDA c : ~IsCJK(c)))
    IN  IF t = <<>> THEN <<>>
        ELSE IF cjk_part # <<>> /\ non_cjk = <<>> THEN <<cjk_part \o <<"*">>>>
        ELSE IF cjk_part # <<>> /\ non_cjk # <<>>
        THEN <<cjk_part \o <<"*">>, quoted(non_cjk)>>
        ELSE <<quoted(t)>>

RECURSIVE SanitizeTokens(_)
SanitizeTokens(tokens) ==
    IF tokens = <<>> THEN <<>>
    ELSE TokenTerms(Head(tokens)) \o SanitizeTokens(Tail(tokens))

sanitize_fts_query(query) == join(<<" ">>, SanitizeTokens(split_ws(query)))

(***************************************************************************)
(* State.                                                                  *)
(***************************************************************************)
VARIABLES
    \* SpecFuse: the call made ("input" before it, "off" in Spec), its
    \* arguments (the candidate lists as rowids in rank order, and
    \* max_results), the fused list in score order and the list returned
    fPc, fBmIds, fVecIds, fLimit, fRanked, fOut,
    \* the corpus: path -> [present, fp (fingerprint), text]
    corpus,
    \* the embedding provider a process finds: [avail, model]
    provider,
    \* edits of the corpus made so far
    edits,
    \* the database file as committed, and the open connection's view of it
    db, conn,
    \* where the running operation stands ("idle": no process runs), and the
    \* operation: [kind, mode, cat, bm25, vec, nested, quiet]
    pc, op,
    \* collect_files() of the running loop, the index of its next file, and
    \* sync_index's count of updated files
    files, idx, updated,
    \* what the last step did: [step, path, outcome, old, oldEmb]
    last,
    \* of the running operation: the database as it found it (a search: as it
    \* opened it, after the rebuild it starts when there is none), the
    \* paths it chunked, its batch embed calls and what the last one did
    sOpenDb, rechunked, embedCalls, sEmbed,
    \* what search returned
    sOut,
    \* the mode of the last search, "rebuild" after a full rebuild ("none":
    \* neither, or the embed call failed), and whether the corpus or the
    \* provider changed or a partial rebuild ran since
    prevMode, touched,
    \* SpecText: the call made ("input" before it, "off" elsewhere), the text
    \* given (a markdown document, the raw text of a JSON document, or a
    \* query), the JSON document as read, the file path, and what the call
    \* gave: the chunks, whether it raised, the sanitized query; for
    \* _jaccard_similarity ("texts" before it) tContent is text_a, tTextB is
    \* text_b and tSim the similarity it gave
    tPc, tContent, tData, tPath, tChunks, tRaised, tSan, tTextB, tSim

fuseVars == <<fPc, fBmIds, fVecIds, fLimit, fRanked, fOut>>
envVars == <<corpus, provider, edits>>
sessVars == <<op, files, idx, updated, sOpenDb, rechunked, embedCalls, sEmbed, sOut>>
storeVars == <<envVars, db, conn, pc, sessVars, last, prevMode, touched>>
textVars == <<tPc, tContent, tData, tPath, tChunks, tRaised, tSan, tTextB, tSim>>
vars == <<fuseVars, storeVars, textVars>>

NoOp == [kind |-> "none", mode |-> "", cat |-> "", bm25 |-> FALSE, vec |-> FALSE,
         nested |-> FALSE, quiet |-> FALSE, again |-> FALSE]
NoLast == [step |-> "none", path |-> "", outcome |-> "", old |-> {}, oldEmb |-> {}]
Step(name, outcome) == [NoLast EXCEPT !.step = name, !.outcome = outcome]

\* no process has run and none runs
StoreQuiet ==
    /\ db = NoDb /\ conn = NoDb /\ pc = "idle" /\ op = NoOp
    /\ files = <<>> /\ idx = 1 /\ updated = 0 /\ last = NoLast
    /\ sOpenDb = NoDb /\ rechunked = {} /\ embedCalls = 0 /\ sEmbed = "none"
    /\ sOut = <<>> /\ prevMode = "none" /\ touched = FALSE /\ edits = 0

FuseOff ==
    /\ fPc = "off" /\ fBmIds = <<>> /\ fVecIds = <<>> /\ fLimit = 0
    /\ fRanked = <<>> /\ fOut = <<>>

NoData == [kind |-> "null", facts |-> <<>>, items |-> <<>>, has_facts |-> FALSE]
TextOff ==
    /\ tPc = "off" /\ tContent = <<>> /\ tData = NoData /\ tPath = ""
    /\ tChunks = <<>> /\ tRaised = FALSE /\ tSan = <<>>
    /\ tTextB = <<>> /\ tSim = <<0, 1>>

StoreOff ==
    /\ StoreQuiet
    /\ corpus = [p \in Paths |-> [present |-> TRUE, fp |-> 1, text |-> "none"]]
    /\ provider = [avail |-> FALSE, model |-> "M1"]

(***************************************************************************)
(* SpecFuse: rrf_fuse and the dispatch of search on drawn candidate lists. *)
(***************************************************************************)
Bm25Items(ids) == [i \in 1..Len(ids) |-> Bm25Item(ids[i])]
VecItems(ids) == [i \in 1..Len(ids) |-> VecItem(ids[i])]

ShortLists == DistinctSeqs(1..NumChunks, MaxLen)
LongSizes == (BM25_CANDIDATES - 1)..(BM25_CANDIDATES + MaxExtra)
LongIds(n) == [i \in 1..n |-> i]
LongIdsRev(n) == [i \in 1..n |-> n + 1 - i]

FuseInit ==
    /\ fPc = "input"
    /\ fRanked = <<>>
    /\ fOut = <<>>
    /\ \/ /\ fBmIds \in ShortLists
          /\ fVecIds \in ShortLists
          /\ fLimit \in 0..(MaxLen + 1)
       \/ /\ fBmIds \in {LongIds(n) : n \in LongSizes}
          /\ fVecIds \in {<<>>} \cup {LongIdsRev(n) : n \in LongSizes}
          /\ fLimit \in {0} \cup LongSizes
    /\ StoreQuiet
    /\ corpus = [p \in Paths |-> [present |-> TRUE, fp |-> 1, text |-> "none"]]
    /\ provider = [avail |-> FALSE, model |-> "M1"]
    /\ TextOff

\* rrf_fuse(bm25_results, vector_results, max_results=limit), k defaulted
CallFuse ==
    /\ fPc = "input"
    /\ fPc' = "fuse"
    /\ fRanked' = rrf_ranked(Bm25Items(fBmIds), VecItems(fVecIds), RRF_K)
    /\ fOut' = rrf_fuse(Bm25Items(fBmIds), VecItems(fVecIds), RRF_K, fLimit)
    /\ UNCHANGED <<fBmIds, fVecIds, fLimit, storeVars, textVars>>

\* the result of search(query, max_results=limit, mode=mode) when the
\* engine's ranked lists for the query are the two lists
CallSearch(mode) ==
    /\ fPc = "input"
    /\ fPc' = mode
    /\ fRanked' = IF mode = "hybrid" /\ fVecIds # <<>>
                  THEN rrf_ranked(bm25_search(Bm25Items(fBmIds), BM25_CANDIDATES),
                                  vector_search(VecItems(fVecIds), VECTOR_CANDIDATES),
                                  RRF_K)
                  ELSE <<>>
    /\ fOut' = search_results(mode, Bm25Items(fBmIds), VecItems(fVecIds), fLimit)
    /\ UNCHANGED <<fBmIds, fVecIds, fLimit, storeVars, textVars>>

FuseNext ==
    \/ CallFuse
    \/ CallSearch("bm25")
    \/ CallSearch("vector")
    \/ CallSearch("hybrid")

SpecFuse == FuseInit /\ [][FuseNext]_vars

(***************************************************************************)
(* Spec: the store.  One process runs at a time (pc # "idle"); the corpus  *)
(* and the provider change between processes.                              *)
(***************************************************************************)
Modes == {"bm25", "vector", "hybrid"}
CategoryFilters == {"", "daily", "nosuch"}
EmbedOutcomes == {"ok", "empty", "raise"}
Providers ==
    {[avail |-> FALSE, model |-> "M1"]} \cup {[avail |-> TRUE, model |-> m] : m \in Models}

Init ==
    /\ FuseOff
    /\ TextOff
    /\ StoreQuiet
    /\ corpus \in [Paths -> [present : {TRUE}, fp : {1}, text : FileTexts]]
    /\ provider \in Providers

\* collect_files(): the files of the corpus, sorted
collect_files == SelectSeq(PathSeq, LAMBDA p : corpus[p].present)

\* a file is written: new text (or the same), new fingerprint
WriteFile(p, t) ==
    /\ pc = "idle"
    /\ edits < MaxEdits
    /\ corpus' = [corpus EXCEPT ![p] = [present |-> TRUE, fp |-> @.fp + 1, text |-> t]]
    /\ edits' = edits + 1
    /\ touched' = TRUE
    /\ UNCHANGED <<fuseVars, textVars, provider, db, conn, pc, sessVars, last, prevMode>>

\* a file is removed from the corpus
RemoveFile(p) ==
    /\ pc = "idle"
    /\ edits < MaxEdits
    /\ corpus[p].present
    /\ corpus' = [corpus EXCEPT ![p].present = FALSE]
    /\ edits' = edits + 1
    /\ touched' = TRUE
    /\ UNCHANGED <<fuseVars, textVars, provider, db, conn, pc, sessVars, last, prevMode>>

\* the provider appears, disappears or resolves to another model
SetProvider(pr) ==
    /\ pc = "idle"
    /\ pr # provider
    /\ provider' = pr
    /\ touched' = TRUE
    /\ UNCHANGED <<fuseVars, textVars, corpus, edits, db, conn, pc, sessVars, last, prevMode>>

\* what every operation resets when it starts
StartSession(o, found) ==
    /\ op' = o
    /\ idx' = 1
    /\ updated' = 0
    /\ rechunked' = {}
    /\ embedCalls' = 0
    /\ sEmbed' = "none"
    /\ sOut' = <<>>
    /\ sOpenDb' = found
    /\ last' = Step("start", o.kind)

\* rebuild_index that keeps the database file and only forgets the
\* fingerprints, so that every file is indexed again in place
StartRebuild_in_place(rebuild_bm25, rebuild_vec) ==
    /\ pc = "idle"
    /\ rebuild_bm25 \/ rebuild_vec
    /\ StartSession([NoOp EXCEPT !.kind = "rebuild", !.bm25 = rebuild_bm25,
                                 !.vec = rebuild_vec,
                                 !.again = (prevMode = "rebuild" /\ ~touched)],
                    db)
    /\ IF rebuild_bm25
       THEN /\ db' = IF db.exists THEN db ELSE EmptyDb
            /\ conn' = [db' EXCEPT !.files = [p \in Paths |-> 0]]
            /\ files' = collect_files
            /\ pc' = "rb_index"
       ELSE /\ db' = IF db.exists THEN db ELSE EmptyDb
            /\ conn' = db'
            /\ files' = <<>>
            /\ pc' = "rb_embed"
    /\ prevMode' = "none"
    /\ touched' = TRUE
    /\ UNCHANGED <<fuseVars, textVars, envVars>>

\* rebuild_index that empties the lexical tables and keeps the embedding
\* rows and the model name
StartRebuild_keeps_vectors(rebuild_bm25, rebuild_vec) ==
    /\ pc = "idle"
    /\ rebuild_bm25 \/ rebuild_vec
    /\ StartSession([NoOp EXCEPT !.kind = "rebuild", !.bm25 = rebuild_bm25,
                                 !.vec = rebuild_vec,
                                 !.again = (prevMode = "rebuild" /\ ~touched)],
                    db)
    /\ IF rebuild_bm25
       THEN /\ db' = [EmptyDb EXCEPT !.emb = db.emb, !.model_name = db.model_name]
            /\ conn' = db'
            /\ files' = collect_files
            /\ pc' = "rb_index"
       ELSE /\ db' = IF db.exists THEN db ELSE EmptyDb
            /\ conn' = db'
            /\ files' = <<>>
            /\ pc' = "rb_embed"
    /\ prevMode' = "none"
    /\ touched' = TRUE
    /\ UNCHANGED <<fuseVars, textVars, envVars>>

\* rebuild_index(rebuild_bm25, rebuild_vec) up to its loop over the files:
\* the three forms main() calls
StartRebuild(rebuild_bm25, rebuild_vec) ==
    /\ pc = "idle"
    /\ rebuild_bm25 \/ rebuild_vec
    /\ StartSession([NoOp EXCEPT !.kind = "rebuild", !.bm25 = rebuild_bm25,
                                 !.vec = rebuild_vec,
                                 !.again = (prevMode = "rebuild" /\ ~touched)],
                    db)
    /\ IF rebuild_bm25
       THEN /\ db' = EmptyDb
            /\ conn' = EmptyDb
            /\ files' = collect_files
            /\ pc' = "rb_index"
       ELSE /\ db' = IF db.exists THEN db ELSE EmptyDb
            /\ conn' = db'
            /\ files' = <<>>
            /\ pc' = "rb_embed"
    /\ prevMode' = "none"
    /\ touched' = TRUE
    /\ UNCHANGED <<fuseVars, textVars, envVars>>

\* search(query, category_filter, mode=mode) up to sqlite3.connect: with
\* no database file it starts rebuild_index() first.  category_filter is
\* not used before the query: SQuery draws it.
StartSearch(mode) ==
    /\ pc = "idle"
    /\ StartSession([NoOp EXCEPT !.kind = "search", !.mode = mode,
                                 !.bm25 = TRUE, !.vec = TRUE, !.nested = ~db.exists,
                                 !.quiet = (prevMode = mode /\ ~touched)],
                    NoDb)
    /\ IF db.exists
       THEN /\ pc' = "s_open"
            /\ files' = <<>>
            /\ UNCHANGED <<db, conn>>
       ELSE /\ db' = EmptyDb
            /\ conn' = EmptyDb
            /\ files' = collect_files
            /\ pc' = "rb_index"
    /\ UNCHANGED <<fuseVars, textVars, envVars, prevMode, touched>>

\* one iteration of rebuild_index's loop: index_file under try/except
RbIndexFile ==
    /\ pc = "rb_index"
    /\ idx <= Len(files)
    /\ LET r == index_file(conn, files[idx], corpus[files[idx]])
       IN  /\ conn' = r.db
           /\ rechunked' = IF r.outcome = "indexed" THEN rechunked \cup {files[idx]}
                           ELSE rechunked
           /\ last' = [step |-> "index_file", path |-> files[idx],
                       outcome |-> r.outcome, old |-> r.old, oldEmb |-> r.oldEmb]
    /\ idx' = idx + 1
    /\ UNCHANGED <<fuseVars, textVars, envVars, db, pc, op, files, updated, sOpenDb,
                   embedCalls, sEmbed, sOut, prevMode, touched>>

\* the end of that loop: conn.commit(); without rebuild_vec also conn.close()
RbCommit ==
    /\ pc = "rb_index"
    /\ idx > Len(files)
    /\ db' = conn
    /\ conn' = conn
    /\ pc' = IF op.vec THEN "rb_embed" ELSE "done"
    /\ last' = Step("commit", "")
    /\ UNCHANGED <<fuseVars, textVars, envVars, sessVars, prevMode, touched>>

\* build_embeddings(conn, force=True) and conn.close() of rebuild_index; an
\* exception of the embed call ends the process
RbEmbed(outcome) ==
    /\ pc = "rb_embed"
    /\ LET r == build_embeddings(conn, TRUE, provider, outcome)
       IN  /\ db' = IF r.commit THEN r.db ELSE db
           /\ conn' = db'
           /\ embedCalls' = IF r.called THEN embedCalls + 1 ELSE embedCalls
           /\ sEmbed' = IF r.called THEN outcome ELSE sEmbed
           /\ pc' = IF ~r.raised /\ op.nested THEN "s_open" ELSE "done"
           /\ last' = [Step("build_embeddings",
                            IF r.raised THEN "raised"
                            ELSE IF r.commit THEN "committed" ELSE "returned")
                       EXCEPT !.old = r.rows]
           /\ IF op.kind = "rebuild" /\ op.bm25 /\ ~r.raised
                 /\ ~(r.called /\ outcome = "empty")
              THEN prevMode' = "rebuild" /\ touched' = FALSE
              ELSE UNCHANGED <<prevMode, touched>>
    /\ UNCHANGED <<fuseVars, textVars, envVars, op, files, idx, updated, sOpenDb, rechunked,
                   sOut>>

\* search: sqlite3.connect, init_db, and sync_index up to its loop
SOpen ==
    /\ pc = "s_open"
    /\ conn' = db
    /\ sOpenDb' = db
    /\ files' = collect_files
    /\ idx' = 1
    /\ updated' = 0
    /\ pc' = "s_sync"
    /\ last' = Step("open", "")
    /\ UNCHANGED <<fuseVars, textVars, envVars, db, op, rechunked, embedCalls, sEmbed, sOut,
                   prevMode, touched>>

\* sync_index's loop without the try/except: a raise ends the loop
SIndexFile_stop_at_raise ==
    /\ pc = "s_sync"
    /\ idx <= Len(files)
    /\ LET r == index_file(conn, files[idx], corpus[files[idx]])
       IN  /\ conn' = r.db
           /\ updated' = IF r.outcome = "indexed" /\ r.count > 0 THEN updated + 1
                         ELSE updated
           /\ rechunked' = IF r.outcome = "indexed" THEN rechunked \cup {files[idx]}
                           ELSE rechunked
           /\ last' = [step |-> "index_file", path |-> files[idx],
                       outcome |-> r.outcome, old |-> r.old, oldEmb |-> r.oldEmb]
    /\ idx' = IF index_file(conn, files[idx], corpus[files[idx]]).outcome = "raised"
              THEN Len(files) + 1 ELSE idx + 1
    /\ UNCHANGED <<fuseVars, textVars, envVars, db, pc, op, files, sOpenDb, embedCalls,
                   sEmbed, sOut, prevMode, touched>>

\* one iteration of sync_index's loop: index_file under try/except
SIndexFile ==
    /\ pc = "s_sync"
    /\ idx <= Len(files)
    /\ LET r == index_file(conn, files[idx], corpus[files[idx]])
       IN  /\ conn' = r.db
           /\ updated' = IF r.outcome = "indexed" /\ r.count > 0 THEN updated + 1
                         ELSE updated
           /\ rechunked' = IF r.outcome = "indexed" THEN rechunked \cup {files[idx]}
                           ELSE rechunked
           /\ last' = [step |-> "index_file", path |-> files[idx],
                       outcome |-> r.outcome, old |-> r.old, oldEmb |-> r.oldEmb]
    /\ idx' = idx + 1
    /\ UNCHANGED <<fuseVars, textVars, envVars, db, pc, op, files, sOpenDb, embedCalls,
                   sEmbed, sOut, prevMode, touched>>

\* the end of sync_index: conn.commit() if updated > 0
SSyncDone ==
    /\ pc = "s_sync"
    /\ idx > Len(files)
    /\ db' = IF updated > 0 THEN conn ELSE db
    /\ pc' = IF op.mode \in {"hybrid", "vector"} THEN "s_embed" ELSE "s_query"
    /\ last' = Step("sync_index", IF updated > 0 THEN "committed" ELSE "returned")
    /\ UNCHANGED <<fuseVars, textVars, envVars, conn, sessVars, prevMode, touched>>

\* search's build_embeddings(conn); an exception of the embed call ends the
\* process, and its open transaction is lost
SEmbed(outcome) ==
    /\ pc = "s_embed"
    /\ LET r == build_embeddings(conn, FALSE, provider, outcome)
       IN  /\ db' = IF r.commit THEN r.db ELSE db
           /\ conn' = IF r.raised THEN db ELSE r.db
           /\ embedCalls' = IF r.called THEN embedCalls + 1 ELSE embedCalls
           /\ sEmbed' = IF r.called THEN outcome ELSE sEmbed
           /\ pc' = IF r.raised THEN "done" ELSE "s_query"
           /\ last' = [Step("build_embeddings",
                            IF r.raised THEN "raised"
                            ELSE IF r.commit THEN "committed" ELSE "returned")
                       EXCEPT !.old = r.rows]
           /\ prevMode' = IF r.raised THEN "none" ELSE prevMode
    /\ UNCHANGED <<fuseVars, textVars, envVars, op, files, idx, updated, sOpenDb, rechunked,
                   sOut, touched>>

\* the query of search in its mode under category_filter, and
\* conn.close(): what was not committed is rolled back
SQuery(category_filter) ==
    /\ pc = "s_query"
    /\ op' = [op EXCEPT !.cat = category_filter]
    /\ sOut' = search_results(op.mode, StoreBm25All(conn, category_filter),
                              StoreVecAll(conn, category_filter, provider),
                              MAX_RESULTS)
    /\ conn' = db
    /\ pc' = "done"
    /\ last' = Step("search_done", "")
    /\ prevMode' = IF sEmbed = "empty" THEN "none" ELSE op.mode
    /\ touched' = FALSE
    /\ UNCHANGED <<fuseVars, textVars, envVars, db, files, idx, updated, sOpenDb,
                   rechunked, embedCalls, sEmbed>>

\* the process ends
Return ==
    /\ pc = "done"
    /\ pc' = "idle"
    /\ conn' = db
    /\ op' = NoOp
    /\ files' = <<>>
    /\ idx' = 1
    /\ updated' = 0
    /\ sOpenDb' = NoDb
    /\ rechunked' = {}
    /\ embedCalls' = 0
    /\ sEmbed' = "none"
    /\ sOut' = <<>>
    /\ last' = NoLast
    /\ UNCHANGED <<fuseVars, textVars, envVars, db, prevMode, touched>>

Next ==
    \/ \E p \in Paths, t \in FileTexts : WriteFile(p, t)
    \/ \E p \in Paths : RemoveFile(p)
    \/ \E pr \in Providers : SetProvider(pr)
    \/ \E b, v \in BOOLEAN : StartRebuild(b, v)
    \/ \E m \in Modes : StartSearch(m)
    \/ RbIndexFile
    \/ RbCommit
    \/ \E o \in EmbedOutcomes : RbEmbed(o)
    \/ SOpen
    \/ SIndexFile
    \/ SSyncDone
    \/ \E o \in EmbedOutcomes : SEmbed(o)
    \/ \E c \in CategoryFilters : SQuery(c)
    \/ Return

Spec == Init /\ [][Next]_vars

(***************************************************************************)
(* SpecText: chunk_markdown, chunk_json, sanitize_fts_query and           *)
(* _jaccard_similarity on texts drawn from bounded sets.                   *)
(***************************************************************************)
MaxDocLines == 4
MaxFacts == 2
MaxQueryLen == 5
MaxTextLen == 5

LongText == [i \in 1..(MIN_CHUNK_CHARS + 1) |-> "x"]
\* the lines documents are made of: two headings, a bare heading marker, a
\* body line longer than the minimum, a short body line, a blank line
LineKinds ==
    {<<"#", " ", "A">>, <<"#", "#", " ", "B">>, <<"#">>, LongText, <<"s">>, <<>>}
SeqsUpTo(S, n) == UNION {[1..m -> S] : m \in 0..n}
\* the text of a file of these lines, each ended by a newline or the last not
TextOfLines(lines, newline_at_end) ==
    join(<<"\n">>, lines) \o (IF newline_at_end THEN <<"\n">> ELSE <<>>)
\* documents long enough for the forced split: short body lines, and one
\* heading at line h (none for h = 0)
LongDocSizes == (MAX_CHUNK_LINES - 1)..(MAX_CHUNK_LINES + MaxExtra)
LongDoc(n, h) == [i \in 1..n |-> IF i = h THEN <<"#", " ", "A">> ELSE <<"b">>]
MdDocs ==
    {TextOfLines(l, nl) : l \in SeqsUpTo(LineKinds, MaxDocLines), nl \in BOOLEAN}
    \cup UNION {{TextOfLines(LongDoc(n, h), nl) : h \in 0..n, nl \in BOOLEAN} :
                   n \in LongDocSizes}

\* the entries of a facts list: fact objects, and one entry that is not an
\* object (a string or a number)
NotAnObject ==
    [object |-> FALSE, has_id |-> FALSE, id |-> <<"f", "1">>, fact |-> <<"x">>,
     category |-> <<>>, status |-> "retired", evidence |-> <<>>]
Facts ==
    [object : {TRUE}, has_id : BOOLEAN, id : {<<"f", "1">>, <<"f", "2">>}, fact : {<<"x">>, LongText},
     category : {<<>>, <<"c">>}, status : {"active", "retired"},
     evidence : {<<>>, <<"e">>}]
    \cup {NotAnObject}
\* a serialized value longer than the 500 characters that are kept of it
LongDumped == [i \in 1..501 |-> "v"]
Items ==
    [key : {<<"a">>, <<"k", "e", "y">>}, dumped : {<<"1">>, LongText, LongDumped}]
\* the members of an object have distinct keys
DistinctKeys(items) ==
    \A i, j \in 1..Len(items) : items[i].key = items[j].key => i = j
JsonDocs ==
    {[NoData EXCEPT !.kind = "facts", !.facts = f] : f \in SeqsUpTo(Facts, MaxFacts)}
    \cup {[NoData EXCEPT !.kind = "dict", !.items = i] :
             i \in {s \in SeqsUpTo(Items, MaxFacts) : DistinctKeys(s)}}
    \cup {[NoData EXCEPT !.kind = k, !.has_facts = h] :
             k \in {"list", "string"}, h \in BOOLEAN}
    \cup {[NoData EXCEPT !.kind = k] : k \in {"invalid", "number", "null"}}
\* raw texts that are not JSON, one of them longer than the 2000 characters
\* that are kept of it
LongRaw == [i \in 1..2001 |-> "{"]
InvalidJson == {<<>>, <<"{">>, <<"{">> \o LongText, LongRaw}

QueryChars == {"a", "\"", " "} \cup CJKChars
Queries == SeqsUpTo(QueryChars, MaxQueryLen)

\* the texts _jaccard_similarity compares: up to MaxTextLen characters of
\* two letters, so that texts shorter than a trigram, equal texts, texts
\* with some and texts with no common trigram are all there
TextChars == {"a", "b"}
Texts == SeqsUpTo(TextChars, MaxTextLen)

TextInit ==
    /\ tChunks = <<>>
    /\ tRaised = FALSE
    /\ tSan = <<>>
    /\ tSim = <<0, 1>>
    /\ \/ /\ tPc = "input"
          /\ tPath \in Paths
          /\ tContent \in MdDocs
          /\ tData = NoData
          /\ tTextB = <<>>
       \/ /\ tPc = "input"
          /\ tPath = "areas/p.json"
          /\ tData \in JsonDocs
          /\ tContent \in (IF tData.kind = "invalid" THEN InvalidJson ELSE {<<>>})
          /\ tTextB = <<>>
       \/ /\ tPc = "input"
          /\ tPath = ""
          /\ tContent \in Queries
          /\ tData = NoData
          /\ tTextB = <<>>
       \/ /\ tPc = "texts"
          /\ tPath = ""
          /\ tContent \in Texts
          /\ tTextB \in Texts
          /\ tData = NoData
    /\ FuseOff
    /\ StoreOff

\* chunk_markdown(content, filepath), max_chunk_lines defaulted
CallChunkMarkdown ==
    /\ tPc = "input"
    /\ tPath \in Paths
    /\ tPc' = "chunk_markdown"
    /\ tChunks' = chunk_markdown(tContent, tPath, MAX_CHUNK_LINES)
    /\ UNCHANGED <<tContent, tData, tPath, tRaised, tSan, tTextB, tSim, fuseVars, storeVars>>

\* chunk_json(content, filepath)
CallChunkJson ==
    /\ tPc = "input"
    /\ tPath = "areas/p.json"
    /\ tPc' = "chunk_json"
    /\ tChunks' = chunk_json(tData, tContent, tPath).chunks
    /\ tRaised' = chunk_json(tData, tContent, tPath).raised
    /\ UNCHANGED <<tContent, tData, tPath, tSan, tTextB, tSim, fuseVars, storeVars>>

\* sanitize_fts_query(query)
CallSanitize ==
    /\ tPc = "input"
    /\ tPath = ""
    /\ tPc' = "sanitize_fts_query"
    /\ tSan' = sanitize_fts_query(tContent)
    /\ UNCHANGED <<tContent, tData, tPath, tChunks, tRaised, tTextB, tSim, fuseVars,
                   storeVars>>

\* _jaccard_similarity(text_a, text_b)
CallJaccard ==
    /\ tPc = "texts"
    /\ tPc' = "jaccard_similarity"
    /\ tSim' = jaccard_similarity(tContent, tTextB)
    /\ UNCHANGED <<tContent, tData, tPath, tChunks, tRaised, tSan, tTextB, fuseVars,
                   storeVars>>

TextNext ==
    \/ CallChunkMarkdown
    \/ CallChunkJson
    \/ CallSanitize
    \/ CallJaccard

SpecText == TextInit /\ [][TextNext]_vars

(***************************************************************************)
(* Properties of rrf_fuse and of the mode dispatch (SpecFuse).             *)
(***************************************************************************)
Range(f) == {f[i] : i \in DOMAIN f}
RowidsOf(items) == {items[i].rowid : i \in 1..Len(items)}

\* rrf_fuse has run: called directly, or by a hybrid search with vector results
FuseCalled == fPc = "fuse" \/ (fPc = "hybrid" /\ fVecIds # <<>>)
\* the lists rrf_fuse was given
CandBm == IF fPc = "hybrid" THEN Take(fBmIds, BM25_CANDIDATES) ELSE fBmIds
CandVec == IF fPc = "hybrid" THEN Take(fVecIds, VECTOR_CANDIDATES) ELSE fVecIds

\* 1-based position of rid in ids, 0 when it is not there
PosIn(ids, rid) ==
    IF \E i \in 1..Len(ids) : ids[i] = rid
    THEN CHOOSE i \in 1..Len(ids) : ids[i] = rid
    ELSE 0
RankTerm(ids, rid) ==
    IF PosIn(ids, rid) = 0 THEN <<0, 1>> ELSE <<1, RRF_K + PosIn(ids, rid)>>
ExpectedScore(rid) == RatAdd(RankTerm(CandBm, rid), RankTerm(CandVec, rid))
\* position of a fused item in the score-ordered list
PosRanked(rid) == CHOOSE p \in 1..Len(fRanked) : fRanked[p].rowid = rid
Returned(rid) == rid \in RowidsOf(fOut)

\* C1: every fused chunk's score is the sum over the lists that hold it of
\* 1/(k + its 1-based position there), a list without it adds nothing, the
\* fused list holds exactly the chunks of the two lists and each chunk once.
C1_ScoreIsSumOfReciprocalRanks ==
    FuseCalled =>
        /\ RowidsOf(fRanked) = Range(CandBm) \cup Range(CandVec)
        /\ \A i \in 1..Len(fRanked) :
              RatEq(fRanked[i].rrf_score, ExpectedScore(fRanked[i].rowid))
        /\ \A i, j \in 1..Len(fRanked) : i # j => fRanked[i].rowid # fRanked[j].rowid
        /\ \A i \in 1..Len(fOut) :
              RatEq(fOut[i].rrf_score, ExpectedScore(fOut[i].rowid))
        /\ \A i, j \in 1..Len(fOut) : i # j => fOut[i].rowid # fOut[j].rowid

\* a returned list with a chunk of both lists, a lexical-only and a vector-only one
C1_Witness ==
    /\ fPc = "fuse"
    /\ \E i, j, l \in 1..Len(fOut) :
          /\ fOut[i].bm25_rank > 0 /\ fOut[i].vec_rank > 0
          /\ fOut[j].bm25_rank > 0 /\ fOut[j].vec_rank = 0
          /\ fOut[l].bm25_rank = 0 /\ fOut[l].vec_rank > 0

\* place of a chunk in the order the fused dict was filled: the lexical list
\* first, then the vector-only chunks in vector-list order
OrigKey(rid) ==
    IF PosIn(CandBm, rid) > 0 THEN PosIn(CandBm, rid)
    ELSE Len(CandBm) + PosIn(CandVec, rid)

\* C2: the fused list is in descending score order, chunks of equal score
\* in their original order (lexical list, then vector-only chunks); lexical
\* [A,B,C] and vector [B,A,D] without near-duplicates come out as A,B,C,D.
C2_DescendingStableOrder ==
    FuseCalled =>
        /\ \A i, j \in 1..Len(fRanked) : i < j =>
              \/ RatGt(ExpectedScore(fRanked[i].rowid), ExpectedScore(fRanked[j].rowid))
              \/ /\ RatEq(ExpectedScore(fRanked[i].rowid), ExpectedScore(fRanked[j].rowid))
                 /\ OrigKey(fRanked[i].rowid) < OrigKey(fRanked[j].rowid)
        /\ \A i, j \in 1..Len(fOut) : i < j =>
              \/ RatGt(fOut[i].rrf_score, fOut[j].rrf_score)
              \/ /\ RatEq(fOut[i].rrf_score, fOut[j].rrf_score)
                 /\ OrigKey(fOut[i].rowid) < OrigKey(fOut[j].rowid)
        /\ (fPc = "fuse" /\ fBmIds = <<2, 3, 4>> /\ fVecIds = <<3, 2, 5>> /\ fLimit >= 4)
              => [i \in 1..Len(fOut) |-> fOut[i].rowid] = <<2, 3, 4, 5>>

\* the example of the claim: A,B,C and B,A,D are chunks 2,3,4 and 3,2,5
C2_Witness ==
    /\ fPc = "fuse" /\ fBmIds = <<2, 3, 4>> /\ fVecIds = <<3, 2, 5>> /\ fLimit = 4
    /\ Len(fOut) = 4
    /\ RatEq(fOut[1].rrf_score, fOut[2].rrf_score)
    /\ RatEq(fOut[3].rrf_score, fOut[4].rrf_score)

\* place in the fused list of the last chunk returned (0: nothing returned)
LastAccepted == IF fOut = <<>> THEN 0 ELSE PosRanked(fOut[Len(fOut)].rowid)

\* C3: the returned list is a subsequence of the score-ordered fused list,
\* no two returned chunks have trigram Jaccard similarity above 0.83, every
\* skipped chunk before the last returned one is above 0.83 with a returned
\* chunk ranked higher, and the top fused chunk is always returned.
C3_GreedyDedup ==
    FuseCalled =>
        /\ \A a \in 1..Len(fOut) : \E p \in 1..Len(fRanked) : fRanked[p] = fOut[a]
        /\ \A a, b \in 1..Len(fOut) : a < b =>
              PosRanked(fOut[a].rowid) < PosRanked(fOut[b].rowid)
        /\ \A a, b \in 1..Len(fOut) : a # b =>
              ~RatGt(jaccard_similarity(fOut[a].content, fOut[b].content),
                     <<JACCARD_NUM, JACCARD_DEN>>)
        /\ \A p \in 1..Len(fRanked) :
              (p < LastAccepted /\ ~Returned(fRanked[p].rowid)) =>
                 \E q \in 1..(p - 1) :
                    /\ Returned(fRanked[q].rowid)
                    /\ RatGt(jaccard_similarity(fRanked[p].content, fRanked[q].content),
                             <<JACCARD_NUM, JACCARD_DEN>>)
        /\ fRanked # <<>> => (fOut # <<>> /\ fOut[1] = fRanked[1])

\* a chunk was skipped as a near-duplicate and a lower-ranked one returned
C3_Witness ==
    /\ fPc = "fuse"
    /\ Len(fOut) >= 2
    /\ \E p \in 1..Len(fRanked) : p < LastAccepted /\ ~Returned(fRanked[p].rowid)

Punctuation == {".", ",", ";", "!", "?"}
\* b is a plus one trailing punctuation character
PlusTrailingPunct(a, b) ==
    /\ Len(b) = Len(a) + 1
    /\ SubSeq(b, 1, Len(a)) = a
    /\ b[Len(b)] \in Punctuation
DifferByTrailingPunct(a, b) == PlusTrailingPunct(a, b) \/ PlusTrailingPunct(b, a)
Shorter(a, b) == IF Len(a) <= Len(b) THEN a ELSE b
SimAbove(a, b) == RatGt(jaccard_similarity(a, b), <<JACCARD_NUM, JACCARD_DEN>>)
SimBelow(a, b) == RatGt(<<JACCARD_NUM, JACCARD_DEN>>, jaccard_similarity(a, b))

C5_AtMostLimit == fPc # "input" => Len(fOut) <= fLimit

\* C6: with an empty vector list a hybrid search returns what a lexical
\* search returns for the same query and limit, each item tagged bm25 only.
C6_HybridFallbackIsLexical ==
    (fPc = "hybrid" /\ fVecIds = <<>>) =>
        /\ fOut = search_results("bm25", Bm25Items(fBmIds), VecItems(fVecIds), fLimit)
        /\ \A i \in 1..Len(fOut) : fOut[i].sources = <<"bm25">>

(***************************************************************************)
(* Properties of the store, checked under Spec.                            *)
(***************************************************************************)
InSearch == op.kind = "search" /\ pc \in {"s_sync", "s_embed", "s_query"}

\* C7 (as claimed): in a search that follows a search of the same mode with
\* no file written or removed in between (and no provider change and no
\* rebuild), the sync re-chunks no file, leaves the chunk rows, the position
\* rows and the file rows as the search found them, and makes no embed call.
C7_QuietSyncIsNoOp ==
    (InSearch /\ op.quiet) =>
        /\ rechunked = {}
        /\ conn.chunks = sOpenDb.chunks
        /\ conn.meta = sOpenDb.meta
        /\ conn.files = sOpenDb.files
        /\ embedCalls = 0

ChunksOf(v, path) == {c \in v.chunks : c.path = path}
RowidsOfPath(v, path) == {c.rowid : c \in ChunksOf(v, path)}
\* the chunks stored for a path, in rowid order, as drafts
StoredDrafts(v, path) ==
    LET ids == Ascending(RowidsOfPath(v, path))
    IN  [i \in 1..Len(ids) |->
            LET c == ChunkRow(v, ids[i])
                m == CHOOSE m \in v.meta : m.rowid = ids[i]
            IN  [title |-> c.title, content |-> c.content,
                 line_start |-> m.line_start, line_end |-> m.line_end]]
Reindexed == last.step = "index_file" /\ last.outcome = "indexed"

\* C8: after index_file has re-indexed a path (its fingerprint differed
\* from the stored one), the chunks stored for the path are exactly the
\* chunks of the file's current content, each with its one position row and
\* the path's category, no other position row of the path is left, and no
\* embedding row is left for a rowid of a chunk the path had before, nor
\* for a rowid of a new chunk.
C8_ReindexReplacesChunks ==
    Reindexed =>
        LET path == last.path
            ids == RowidsOfPath(conn, path)
        IN  /\ \A r \in ids : Cardinality({m \in conn.meta : m.rowid = r}) = 1
            /\ \A r \in ids : Cardinality({c \in conn.chunks : c.rowid = r}) = 1
            /\ StoredDrafts(conn, path) = DraftsOf(corpus[path].text)
            /\ \A c \in ChunksOf(conn, path) : c.category = categorize_file(path)
            /\ {m.rowid : m \in {m \in conn.meta : m.path = path}} = ids
            /\ \A e \in conn.emb : e.chunk_rowid \notin (last.old \cup ids)
            /\ conn.files[path] = corpus[path].fp

\* a re-index that replaced chunks which had embeddings by new chunks
C8_Witness ==
    /\ Reindexed
    /\ last.old # {}
    /\ last.oldEmb = last.old
    /\ RowidsOfPath(conn, last.path) # {}
    /\ RowidsOfPath(conn, last.path) \cap last.old # {}

\* C9 (as claimed): when a hybrid or vector search found embeddings stored,
\* all under a model other than the one its working provider resolves to,
\* then once it has finished the database holds no embedding row of another
\* model, exactly one row of the provider's model for every chunk, and the
\* provider's model as the stored model name.
C9_ModelSwitchReembedsAll ==
    (/\ pc = "done"
     /\ last.step = "search_done"
     /\ op.mode \in {"hybrid", "vector"}
     /\ ~op.nested
     /\ provider.avail
     /\ sEmbed # "empty"
     /\ sOpenDb.emb # {}
     /\ \A e \in sOpenDb.emb : e.model # provider.model)
    => /\ \A e \in db.emb : e.model = provider.model
       /\ \A c \in db.chunks :
             Cardinality({e \in db.emb : e.chunk_rowid = c.rowid}) = 1
       /\ db.model_name = provider.model

OneModel(v) == \A e \in v.emb : e.model = v.model_name

\* C10: in the database as committed, and in the view of every open
\* connection, every embedding row carries the stored model name (so no
\* two rows carry different models).
C10_OneEmbeddingModel == OneModel(db) /\ OneModel(conn)

\* a search that found embeddings of M1 queries a store re-embedded under M2
C10_Witness ==
    /\ pc = "s_query"
    /\ sOpenDb.emb # {}
    /\ sOpenDb.model_name = "M1"
    /\ conn.model_name = "M2"
    /\ conn.emb # {}
    /\ db = conn

(***************************************************************************)
(* Properties of the chunkers and of sanitize_fts_query, checked under     *)
(* SpecText.                                                               *)
(***************************************************************************)
DocLines == split(tContent, "\n")
IsHeading(line) == startswith(line, "#")
HeadingText(line) == strip(lstrip(line, {"#"}))
\* the text of the nearest heading that has one at or before line n, the
\* base name of the file when there is none
NearestHeading(n) ==
    LET hs == {i \in 1..n : IsHeading(DocLines[i]) /\ HeadingText(DocLines[i]) # <<>>}
    IN  IF hs = {} THEN basename(tPath)
        ELSE HeadingText(DocLines[CHOOSE i \in hs : \A j \in hs : j <= i])
\* one heading line with a text, then body lines only, fewer lines than the
\* forced split takes and more text than the minimum
HeadingThenBody ==
    /\ Len(DocLines) >= 2
    /\ Len(DocLines) < MAX_CHUNK_LINES
    /\ IsHeading(DocLines[1]) /\ HeadingText(DocLines[1]) # <<>>
    /\ \A i \in 2..Len(DocLines) : ~IsHeading(DocLines[i])
    /\ Len(strip(tContent)) > MIN_CHUNK_CHARS

\* C11 (as claimed): every chunk of chunk_markdown has the text of the
\* nearest heading at or before its first line as its title (the base name
\* when none precedes), and a heading line followed by body lines gives
\* exactly one chunk, titled with the heading's text.
C11_TitleIsNearestHeading ==
    tPc = "chunk_markdown" =>
        /\ \A i \in 1..Len(tChunks) :
              tChunks[i].title = NearestHeading(tChunks[i].line_start)
        /\ HeadingThenBody =>
              /\ Len(tChunks) = 1
              /\ tChunks[1].title = HeadingText(DocLines[1])

\* the number of lines of the document: its newline-ended lines, and the
\* text after the last newline if there is any
NumLines ==
    IF DocLines[Len(DocLines)] = <<>> THEN Len(DocLines) - 1 ELSE Len(DocLines)

\* C12 (as claimed): the chunks of chunk_markdown are in document order,
\* with 1 <= line_start <= line_end <= the number of lines of the document,
\* each range after the one before it, each content the trimmed text of the
\* lines line_start..line_end; a heading line followed by body lines gives
\* the bounds 1..number of lines.
C12_LineBounds ==
    tPc = "chunk_markdown" =>
        /\ \A i \in 1..Len(tChunks) :
              /\ 1 <= tChunks[i].line_start
              /\ tChunks[i].line_start <= tChunks[i].line_end
              /\ tChunks[i].line_end <= NumLines
              /\ tChunks[i].content =
                    strip(join(<<"\n">>, SubSeq(DocLines, tChunks[i].line_start,
                                                tChunks[i].line_end)))
        /\ \A i, j \in 1..Len(tChunks) :
              i < j => tChunks[i].line_end < tChunks[j].line_start
        /\ HeadingThenBody =>
              /\ Len(tChunks) = 1
              /\ tChunks[1].line_start = 1
              /\ tChunks[1].line_end = NumLines

\* C13 (as claimed): every chunk a chunker gives to the index, from a
\* markdown document or from a JSON document, has a content of more than 20
\* characters.
C13_ChunksAreLong ==
    tPc \in {"chunk_markdown", "chunk_json"} =>
        \A i \in 1..Len(tChunks) : Len(tChunks[i].content) > MIN_CHUNK_CHARS

\* the whitespace-separated tokens of the query, in order
TokenStarts ==
    {i \in 1..Len(tContent) :
        tContent[i] \notin Whitespace /\ (i = 1 \/ tContent[i - 1] \in Whitespace)}
TokenEnd(i) ==
    CHOOSE j \in i..Len(tContent) :
        /\ \A n \in i..j : tContent[n] \notin Whitespace
        /\ (j = Len(tContent) \/ tContent[j + 1] \in Whitespace)
QueryTokens ==
    LET starts == Ascending(TokenStarts)
    IN  [n \in 1..Len(starts) |-> SubSeq(tContent, starts[n], TokenEnd(starts[n]))]
\* t in double quotes, every double quote of t doubled
QuotedTerm(t) ==
    <<"\"">>
    \o join(<<>>, [i \in 1..Len(t) |->
                      IF t[i] = "\"" THEN <<"\"", "\"">> ELSE <<t[i]>>])
    \o <<"\"">>
PrefixTerm(t) == t \o <<"*">>
CjkOf(t) == SelectSeq(t, LAMBDA c : c \in CJKChars)
RestOf(t) == SelectSeq(t, LAMBDA c : c \notin CJKChars)
ExpectedTerms(t) ==
    IF RestOf(t) = <<>> THEN <<PrefixTerm(t)>>
    ELSE IF CjkOf(t) = <<>> THEN <<QuotedTerm(t)>>
    ELSE <<PrefixTerm(CjkOf(t)), QuotedTerm(RestOf(t))>>

\* C14: sanitize_fts_query gives, for the tokens of the query in order, a
\* prefix term token* for a token of CJK characters only, the token in
\* double quotes with its double quotes doubled for a token without CJK
\* characters, and for a mixed token the prefix term of its CJK characters
\* followed by the quoted term of its other characters; the terms are
\* joined by single spaces.  Two Latin tokens give two quoted terms, a
\* query of CJK characters only gives one prefix term.
C14_SanitizedTerms ==
    tPc = "sanitize_fts_query" =>
        /\ tSan = join(<<" ">>,
                       join(<<>>, [n \in 1..Len(QueryTokens) |->
                                      ExpectedTerms(QueryTokens[n])]))
        /\ tContent = <<"a", " ", "a", "a">> =>
              tSan = <<"\"", "a", "\"", " ", "\"", "a", "a", "\"">>
        /\ (tContent # <<>> /\ \A i \in 1..Len(tContent) : tContent[i] \in CJKChars) =>
              tSan = tContent \o <<"*">>

\* a query of a token with a double quote and a mixed token
C14_Witness ==
    /\ tPc = "sanitize_fts_query"
    /\ Len(QueryTokens) = 2
    /\ \E i \in 1..Len(QueryTokens[1]) : QueryTokens[1][i] = "\""
    /\ CjkOf(QueryTokens[1]) = <<>>
    /\ CjkOf(QueryTokens[2]) # <<>> /\ RestOf(QueryTokens[2]) # <<>>
    /\ Len(tSan) > Len(tContent) + 4

\* a full rebuild that has ended, started right after a full rebuild with
\* the corpus and the provider as they were, the provider giving its vectors
RebuiltAgain ==
    /\ pc = "done"
    /\ op.kind = "rebuild" /\ op.bm25 /\ op.vec /\ op.again
    /\ last.step = "build_embeddings"
    /\ last.outcome # "raised"
    /\ sEmbed # "empty"

\* C15: a full rebuild right after a full rebuild, the corpus unchanged and
\* the provider deterministic, leaves the chunk rows (path, title, content,
\* rowid), the position rows (line bounds) and the embedding rows the first
\* rebuild left.
C15_RebuildTwiceSame ==
    RebuiltAgain =>
        /\ db.chunks = sOpenDb.chunks
        /\ db.meta = sOpenDb.meta
        /\ db.emb = sOpenDb.emb
        /\ db.model_name = sOpenDb.model_name

\* a second rebuild of a corpus of two files with chunks, embedded
C15_Witness ==
    /\ RebuiltAgain
    /\ \A p \in Paths : \E c \in db.chunks : c.path = p
    /\ \A c \in db.chunks : \E e \in db.emb : e.chunk_rowid = c.rowid

SearchDone == pc = "done" /\ last.step = "search_done"

\* C16 (as claimed): a search in bm25 mode makes no embed call and adds no
\* embedding row, whatever the store is when it starts, also with no
\* database file.
C16_LexicalNeverEmbeds ==
    (op.kind = "search" /\ op.mode = "bm25") =>
        /\ embedCalls = 0
        /\ op.nested => (db.emb = {} /\ conn.emb = {})
        /\ (~op.nested /\ pc # "s_open") =>
              (db.emb \subseteq sOpenDb.emb /\ conn.emb \subseteq sOpenDb.emb)

\* C17: with a category filter every result of search, in each mode, has
\* that category, and the filter for a category no chunk has gives the empty
\* list (the search ends as any other).
C17_CategoryFilter ==
    (SearchDone /\ op.cat # "") =>
        /\ \A i \in 1..Len(sOut) : sOut[i].category = op.cat
        /\ \A i \in 1..Len(sOut) :
              \E c \in sOpenDb.chunks \cup db.chunks :
                 c.rowid = sOut[i].rowid /\ c.category = op.cat
        /\ op.cat = "nosuch" => sOut = <<>>

\* a filtered search that returned chunks while the index held chunks of
\* another category
C17_Witness ==
    /\ SearchDone
    /\ op.cat = "daily"
    /\ op.mode = "hybrid"
    /\ sOut # <<>>
    /\ \E c \in db.chunks : c.category = "memory"
    /\ \E e \in db.emb : ChunkRow(db, e.chunk_rowid).category = "memory"

\* C18: with no provider, build_embeddings returns 0 without a commit and
\* leaves the connection's view (embedding rows and stored model name) as it
\* is, vector_search gives the empty list under every filter, and a search
\* in vector mode ends with the empty list.
C18_NoProvider ==
    ~provider.avail =>
        /\ pc \in {"s_embed", "rb_embed"} =>
              \A f \in BOOLEAN, o \in EmbedOutcomes :
                 LET r == build_embeddings(conn, f, provider, o)
                 IN  r.ret = 0 /\ r.db = conn /\ ~r.commit /\ ~r.raised /\ ~r.called
        /\ (op.kind = "search" /\ pc = "s_query") =>
              /\ conn.emb \subseteq sOpenDb.emb
              /\ conn.model_name = sOpenDb.model_name
              /\ \A c \in CategoryFilters : StoreVecAll(conn, c, provider) = <<>>
        /\ last.step = "build_embeddings" => last.outcome = "returned"
        /\ embedCalls = 0
        /\ (SearchDone /\ op.mode = "vector") => sOut = <<>>

\* a vector search without a provider over an index that holds embeddings
C18_Witness ==
    /\ SearchDone
    /\ op.mode = "vector"
    /\ ~provider.avail
    /\ db.emb # {}
    /\ sOut = <<>>

LoopDone == pc \in {"rb_index", "s_sync"} /\ idx > Len(files)
Raises(path) == ReadRaises(corpus[path].text)

\* C19: when index_file raises for a file, the loop of rebuild_index and of
\* sync_index goes on: at its end every other file of the corpus has its
\* fingerprint stored and exactly the chunks of its content, as with the
\* failing file absent.
C19_BadFileIsSkipped ==
    /\ (last.step = "index_file" /\ last.outcome = "raised") =>
          pc \in {"rb_index", "s_sync"}
    /\ LoopDone =>
          \A q \in Range(files) :
             ~Raises(q) =>
                /\ conn.files[q] = corpus[q].fp
                /\ StoredDrafts(conn, q) = DraftsOf(corpus[q].text)
                /\ {m.rowid : m \in {m \in conn.meta : m.path = q}} = RowidsOfPath(conn, q)

\* the loop of a sync has ended: the first file raised, the second was
\* indexed after it
C19_Witness ==
    /\ LoopDone
    /\ pc = "s_sync"
    /\ Len(files) = 2
    /\ Raises(files[1])
    /\ files[2] \in rechunked
    /\ RowidsOfPath(conn, files[2]) # {}

\* C20 (as claimed): after a search has synced, every chunk row, position
\* row and embedding row of the index belongs to a file of the corpus, and
\* no result is a chunk of a removed file.
C20_RemovedFilesLeaveIndex ==
    SearchDone =>
        /\ \A c \in db.chunks : corpus[c.path].present
        /\ \A m \in db.meta : corpus[m.path].present
        /\ \A e \in db.emb : \E c \in db.chunks :
              c.rowid = e.chunk_rowid /\ corpus[c.path].present
        /\ \A i \in 1..Len(sOut) : \E c \in db.chunks :
              c.rowid = sOut[i].rowid /\ corpus[c.path].present

(***************************************************************************)
(* Properties of chunk_json, of the chunk size of chunk_markdown and of    *)
(* jaccard_similarity (SpecText).                                          *)
(***************************************************************************)
JsonChunked == tPc = "chunk_json" /\ ~tRaised
\* the positions of the active records of the facts list, in record order
ActiveRecords == Ascending({i \in 1..Len(tData.facts) : tData.facts[i].status = "active"})
\* the summary line of a record: "[category] fact", then " (evidence: e)"
\* when the record has an evidence
SummaryLine(f) ==
    <<"[">> \o f.category \o <<"]">> \o <<" ">> \o f.fact
        \o (IF Len(f.evidence) = 0 THEN <<>>
            ELSE <<" ", "(">> \o <<"e", "v", "i", "d", "e", "n", "c", "e">> \o <<":", " ">>
                     \o f.evidence \o <<")">>)
\* the first n characters of s
FirstChars(s, n) == [i \in 1..(IF Len(s) < n THEN Len(s) ELSE n) |-> s[i]]
SentinelBounds(c) == c.line_start = 1 /\ c.line_end = 1

\* C21: for a document whose "facts" is a list of fact records, chunk_json
\* gives one chunk per active record, in record order, titled with the
\* record's id (the file's base name for a record that has none) and holding
\* its summary line; for any other object it gives one chunk per key, in key
\* order, titled with the key and holding "key: " and the first 500
\* characters of the serialized value; all these chunks have the line bounds
\* (1, 1).
C21_JsonChunks ==
    JsonChunked =>
        /\ tData.kind = "facts" =>
              /\ Len(tChunks) = Len(ActiveRecords)
              /\ \A n \in 1..Len(tChunks) :
                    LET f == tData.facts[ActiveRecords[n]]
                    IN  /\ f.has_id => tChunks[n].title = f.id
                        /\ ~f.has_id => tChunks[n].title = <<"p", ".", "j", "s", "o", "n">>
                        /\ tChunks[n].content = SummaryLine(f)
                        /\ SentinelBounds(tChunks[n])
        /\ tData.kind = "dict" =>
              /\ Len(tChunks) = Len(tData.items)
              /\ \A n \in 1..Len(tChunks) :
                    LET item == tData.items[n]
                    IN  /\ tChunks[n].title = item.key
                        /\ tChunks[n].content =
                              item.key \o <<":", " ">> \o FirstChars(item.dumped, 500)
                        /\ SentinelBounds(tChunks[n])

\* an object of two keys was chunked, the second value longer than 500
\* characters and cut, and a facts list is not involved
C21_Witness ==
    /\ JsonChunked
    /\ tData.kind = "dict"
    /\ Len(tData.items) = 2
    /\ Len(tData.items[1].dumped) < 500
    /\ Len(tData.items[2].dumped) > 500
    /\ Len(tChunks) = 2
    /\ Len(tChunks[2].content) = Len(tData.items[2].key) + 2 + 500

\* C22 (as claimed): a chunk that is in both the lexical and the vector list
\* has a fused item that carries the lexical result's snippet, the chunk's
\* 1-based rank in each list, and both sources.
C22_FusedItemOfBothLists ==
    FuseCalled =>
        \A i \in 1..Len(fRanked) :
            LET item == fRanked[i]
            IN  (item.rowid \in Range(CandBm) \cap Range(CandVec)) =>
                    /\ item.snippet.from = "bm25"
                    /\ item.bm25_rank = PosIn(CandBm, item.rowid)
                    /\ item.vec_rank = PosIn(CandVec, item.rowid)
                    /\ item.sources = <<"bm25", "vector">>

(***************************************************************************)
(* Properties of the embeddings and of the rows of the store (Spec).       *)
(***************************************************************************)
\* the embedding rows of a chunk in the view v
EmbeddingsOf(v, rid) == {e \in v.emb : e.chunk_rowid = rid}
\* the chunks of v that have no embedding row
Lacking(v) == {c.rowid : c \in {c \in v.chunks : EmbeddingsOf(v, c.rowid) = {}}}
AllRowids(v) == {c.rowid : c \in v.chunks}
\* this step is a call of build_embeddings that returns, the provider being
\* available and giving a vector per text if it is asked
BuildCompletes ==
    /\ pc \in {"rb_embed", "s_embed"}
    /\ pc' # pc
    /\ provider.avail
    /\ last'.outcome # "raised"
    /\ embedCalls' # embedCalls => sEmbed' = "ok"
\* the chunks build_embeddings is to embed: all of them when forced, or when
\* the stored model is another one and every embedding is purged; else the
\* chunks without an embedding
Queued ==
    IF pc = "rb_embed" \/ conn.model_name \notin {"none", provider.model}
    THEN AllRowids(conn)
    ELSE Lacking(conn)

\* C23: when build_embeddings completes with an available provider that
\* gives a vector per text, every chunk has exactly one embedding row, of the
\* active model, and the batch embed call was made at most once: once with
\* exactly the chunks that lacked an embedding (all chunks when forced), not
\* at all when there is none.
C23_OneBatchForTheQueued ==
    [][BuildCompletes =>
          /\ \A c \in conn'.chunks :
                /\ Cardinality(EmbeddingsOf(conn', c.rowid)) = 1
                /\ \A e \in EmbeddingsOf(conn', c.rowid) : e.model = provider.model
          /\ embedCalls' \in {embedCalls, embedCalls + 1}
          /\ embedCalls' = embedCalls + 1 => (last'.old = Queued /\ Queued # {})
          /\ embedCalls' = embedCalls => Queued = {}]_vars

\* a search has embedded, in one call, the chunks of the file it indexed
\* again, and not the chunks that had an embedding
C23_Witness ==
    /\ pc = "s_query"
    /\ last.step = "build_embeddings" /\ last.outcome = "committed"
    /\ embedCalls = 1
    /\ last.old # {}
    /\ AllRowids(conn) \ last.old # {}
    /\ \A c \in conn.chunks : Cardinality(EmbeddingsOf(conn, c.rowid)) = 1

(***************************************************************************)
(* The size of the chunks of chunk_markdown (SpecText).                    *)
(***************************************************************************)
\* the lines a chunk spans, by its line bounds and by its text
SpanOf(c) == c.line_end - c.line_start + 1
TextLinesOf(c) == Cardinality({i \in 1..Len(c.content) : c.content[i] = "\n"}) + 1

\* C24: no chunk of chunk_markdown spans more than max_chunk_lines (30)
\* lines, by its line bounds or by its text, with or without headings in
\* the document.
C24_ChunkSpanIsBounded ==
    tPc = "chunk_markdown" =>
        \A i \in 1..Len(tChunks) :
            /\ SpanOf(tChunks[i]) <= MAX_CHUNK_LINES
            /\ TextLinesOf(tChunks[i]) <= MAX_CHUNK_LINES

\* a document of more than 30 lines and no heading was chunked, and its
\* first chunk was cut at the 30th line
C24_Witness ==
    /\ tPc = "chunk_markdown"
    /\ Len(DocLines) > MAX_CHUNK_LINES
    /\ \A i \in 1..Len(DocLines) : ~IsHeading(DocLines[i])
    /\ Len(tChunks) >= 1
    /\ tChunks[1].line_start = 1
    /\ tChunks[1].line_end = MAX_CHUNK_LINES
    /\ TextLinesOf(tChunks[1]) = MAX_CHUNK_LINES

(***************************************************************************)
(* Properties of jaccard_similarity (SpecText).                            *)
(***************************************************************************)
\* the 3-character substrings of a text
Grams(t) == {<<t[i], t[i + 1], t[i + 2]>> : i \in 1..(Len(t) - 2)}
Compared == tPc = "jaccard_similarity"
ShortText(t) == Len(t) < 3

\* C25: _jaccard_similarity is symmetric and its value is in [0, 1]; when a
\* text has fewer than 3 characters it is 1 for equal texts and 0
\* otherwise; when both have at least 3 it is |A \cap B| / |A \cup B| over
\* their sets of 3-character substrings, which is 1 for identical texts.
C25_JaccardSimilarity ==
    Compared =>
        /\ RatEq(tSim, jaccard_similarity(tTextB, tContent))
        /\ tSim[2] > 0 /\ 0 <= tSim[1] /\ tSim[1] <= tSim[2]
        /\ (ShortText(tContent) \/ ShortText(tTextB)) =>
              RatEq(tSim, IF tContent = tTextB THEN <<1, 1>> ELSE <<0, 1>>)
        /\ (~ShortText(tContent) /\ ~ShortText(tTextB)) =>
              /\ tSim[1] * Cardinality(Grams(tContent) \cup Grams(tTextB))
                    = tSim[2] * Cardinality(Grams(tContent) \cap Grams(tTextB))
              /\ tContent = tTextB => RatEq(tSim, <<1, 1>>)

\* two different texts of at least 3 characters were compared, and some but
\* not all of their 3-character substrings are common
C25_Witness ==
    /\ Compared
    /\ ~ShortText(tContent) /\ ~ShortText(tTextB)
    /\ tContent # tTextB
    /\ RatGt(tSim, <<0, 1>>)
    /\ RatGt(<<1, 1>>, tSim)

\* the position rows of a chunk in the view v
MetaOf(v, rid) == {m \in v.meta : m.rowid = rid}
\* in v every chunk row has exactly one position row, of its rowid and its
\* path, every position row has a chunk row, and no rowid is used twice
OneToOne(v) ==
    /\ \A c \in v.chunks :
          /\ Cardinality(MetaOf(v, c.rowid)) = 1
          /\ \A m \in MetaOf(v, c.rowid) : m.path = c.path
    /\ \A m \in v.meta : \E c \in v.chunks : c.rowid = m.rowid
    /\ \A c, d \in v.chunks : c.rowid = d.rowid => c = d

\* C26: whatever index_file, sync_index and rebuild_index have done, in the
\* database and in the view of the open connection the chunk rows and the
\* position rows are in one-to-one correspondence: a chunk row has exactly
\* one position row, with its rowid and its path, and a position row has a
\* chunk row.
C26_ChunksAndPositions ==
    OneToOne(db) /\ OneToOne(conn)

\* index_file has replaced the chunks of a file and given a freed rowid to
\* a new chunk, another file keeping its chunks
C26_Witness ==
    /\ last.step = "index_file" /\ last.outcome = "indexed"
    /\ last.old \cap RowidsOfPath(conn, last.path) # {}
    /\ \E c \in conn.chunks : c.path # last.path
    /\ Cardinality(conn.meta) >= 2

\* the "title: content" text of a chunk row, written out
TitleAndContent(c) == <<c.title, ": ", c.content>>
\* in v every embedding row is the row of an existing chunk, made of the
\* chunk's present text
EmbeddingsAreCurrent(v) ==
    \A e \in v.emb :
        \E c \in v.chunks :
            /\ c.rowid = e.chunk_rowid
            /\ e.content_hash = <<"md5_16", TitleAndContent(c)>>
            /\ e.embedding = <<e.model, TitleAndContent(c)>>

\* C27: whatever re-indexes, syncs and embedding builds have run, reuse of
\* freed rowids included, every embedding row refers to an existing chunk
\* row and its content hash is the hash of that chunk's current
\* "title: content" text, so that vector_search's join never pairs a chunk
\* with the embedding of another text.
C27_EmbeddingsAreCurrent ==
    EmbeddingsAreCurrent(db) /\ EmbeddingsAreCurrent(conn)

\* a search has indexed an edited file again, a new chunk of another text
\* taking the rowid of an embedded chunk, and has then embedded it
C27_Witness ==
    /\ pc = "s_query"
    /\ last.step = "build_embeddings" /\ last.outcome = "committed"
    /\ \E c \in conn.chunks :
          /\ c.rowid \in last.old
          /\ \E o \in sOpenDb.chunks : o.rowid = c.rowid /\ o.content # c.content
          /\ \E e \in sOpenDb.emb : e.chunk_rowid = c.rowid
          /\ \E e \in conn.emb : e.chunk_rowid = c.rowid

\* what the view v holds for a file: its chunk rows, their position rows,
\* their embedding rows and its stored fingerprint
RowsOfFile(v, path) ==
    [chunks |-> ChunksOf(v, path),
     meta |-> {m \in v.meta : m.path = path},
     emb |-> {e \in v.emb : e.chunk_rowid \in RowidsOfPath(v, path)},
     fp |-> v.files[path]]

\* C28 (as claimed): when index_file raises for a file during the sync of a
\* search, the file's chunk rows, position rows, embedding rows and stored
\* fingerprint are as they were when the sync began.
C28_FailedIndexLeavesRows ==
    (pc = "s_sync" /\ last.step = "index_file" /\ last.outcome = "raised") =>
        RowsOfFile(conn, last.path) = RowsOfFile(sOpenDb, last.path)

(***************************************************************************)
(* chunk_json on every shape of input (SpecText).                          *)
(***************************************************************************)
\* C29 (as claimed): chunk_json returns without raising on every input
\* text: an object, a list, a string, a number, null, a facts list of any
\* entries, and text that is not JSON; for text that is not JSON it returns
\* one chunk, the first 2000 characters of the text.
C29_ChunkJsonNeverRaises ==
    tPc = "chunk_json" =>
        /\ ~tRaised
        /\ tData.kind = "invalid" =>
              /\ Len(tChunks) = 1
              /\ tChunks[1].content = FirstChars(tContent, 2000)

(***************************************************************************)
(* What the partial rebuilds leave alone (Spec).                           *)
(***************************************************************************)
LexicalOnlyRebuild == op.kind = "rebuild" /\ op.bm25 /\ ~op.vec
VectorOnlyRebuild == op.kind = "rebuild" /\ ~op.bm25 /\ op.vec
NoVectors(v) == v.emb = {} /\ v.model_name = "none"
SameLexicalRows(v, w) ==
    v.files = w.files /\ v.chunks = w.chunks /\ v.meta = w.meta

\* C30: from its start to its end a lexical-only rebuild has a store with
\* no embedding row and no model name, whatever was embedded before, and a
\* vector-only rebuild has the file, chunk and position rows it found.
C30_PartialRebuilds ==
    /\ LexicalOnlyRebuild => (NoVectors(db) /\ NoVectors(conn))
    /\ VectorOnlyRebuild => (SameLexicalRows(db, sOpenDb) /\ SameLexicalRows(conn, sOpenDb))

\* a lexical-only rebuild of a store that had embeddings has ended, with
\* chunks in the store
C30_Witness ==
    /\ LexicalOnlyRebuild
    /\ pc = "done"
    /\ sOpenDb.emb # {} /\ sOpenDb.model_name # "none"
    /\ db.chunks # {}
    /\ NoVectors(db)

====
